---- MODULE Spec2Model ----
(***************************************************************************)
(* Synchronisation and reconciliation engine of the snooker data service:  *)
(* the field mapper of oneFourSeven/data_mappers.py,                       *)
(* the upsert layer of oneFourSeven/data_savers.py (save_matches with its   *)
(* anti-regression guard and consistency check, save_rankings,             *)
(* save_players), the duplicate sweep of                                   *)
(* management/commands/cleanup_duplicate_matches.py, the update commands   *)
(* (update_live_matches, update_matches, update_players, update_rankings,  *)
(* fix_score_inconsistencies) and the control loop and activity detector   *)
(* of management/commands/auto_live_monitor.py, and the threads of         *)
(* management/commands/comprehensive_automation.py.                        *)
(*                                                                         *)
(* Specifications                                                          *)
(*   Spec       the history of one Match logical key under a single        *)
(*              writer: every call of save_matches carries one candidate.  *)
(*   SpecGuard  one call of _should_skip_match_update.                     *)
(*   SpecPair   two candidates for one key reconciled in both orders.      *)
(*   SpecBatch  save_matches on whole batches, with storage errors.        *)
(*   SpecOneCall  one call of save_matches on any store, with its batch    *)
(*              and its storage error recorded.                            *)
(*   SpecSavers one call of save_matches, save_rankings, save_players or   *)
(*              save_events on a database with all four tables.            *)
(*   SpecMapper one call of prepare_model_data on a raw record.            *)
(*   SpecUpsert one upstream record of save_matches against the stored    *)
(*              row of its key, from the mapper to update_or_create.       *)
(*   SpecConverge  one key for which upstream serves a final record, in    *)
(*              between a bounded number of stale snapshots.               *)
(*   SpecConvergeLive  SpecConverge with fairness: a write of the final    *)
(*              record eventually goes through.                            *)
(*   SpecTourEnd  the tournament-end updates of one auto_live_monitor run  *)
(*              over the days after the tournaments end.                   *)
(*   SpecConc   two save_matches transactions interleaved on one key.      *)
(*   SpecUnique two save_matches transactions that create rows, and the    *)
(*              unique index of (Event, Round, Number).                    *)
(*   SpecAuto   the two threads of comprehensive_automation (full mode)    *)
(*              and the upstream requests of the commands they call.       *)
(*   SpecIdem   one batch applied by save_matches twice in a row.          *)
(*   SpecDedup  one run of cleanup_duplicate_matches on a store.           *)
(*   SpecDedupGroup  SpecDedup on a store whose rows all share one key.    *)
(*   SpecDedupTimed  SpecDedupGroup with the rows last written in any      *)
(*              order.                                                     *)
(*   SpecRank   calls of save_rankings on a store of ranking entries.      *)
(*   SpecWinner the winner reference of one Match under save_matches,       *)
(*              update_live_matches and fix_score_inconsistencies.         *)
(*   SpecReport one run of the consistency check of save_matches or of     *)
(*              fix_score_inconsistencies on one match.                    *)
(*   SpecSched  the control loop of auto_live_monitor, tick by tick, with   *)
(*              errors, upstream failures and KeyboardInterrupt.           *)
(*   SpecSchedLive  SpecSched with fairness: a tick and a sleep finish.    *)
(*   SpecCmd    the fetch loops of update_live_matches, update_matches,     *)
(*              update_players and update_rankings, with their delays.     *)
(*   SpecDetect one call of auto_live_monitor._has_active_matches.          *)
(*   SpecScenario  two consecutive save_matches calls on a fresh key.      *)
(***************************************************************************)
EXTENDS Integers, Sequences, FiniteSets, TLC

VARIABLES
    stored,     \* Spec: the MatchesOfAnEvent row of the key, or NoRecord
    stats,      \* Spec: the tally returned by the last save_matches call
    wasFinal,   \* Spec: history, a real/Finished/scored row has been stored
    pairInit,   \* SpecPair: the row stored before either candidate
    pairA,      \* SpecPair: candidate A
    pairB,      \* SpecPair: candidate B
    pairAB,     \* SpecPair: the row after A then B
    pairBA,     \* SpecPair: the row after B then A
    pairDone,   \* SpecPair: both orders have been reconciled
    db,         \* SpecBatch: the rows of the stored event, by match number
    bstats,     \* SpecBatch: the tally returned by the last save_matches call
    bfault,     \* SpecBatch: the storage error the last call met, if any
    cdb,        \* SpecConc: the committed row of the key, or NoRecord
    wpc,        \* SpecConc: where each writer is in save_matches
    wcur,       \* SpecConc: the candidate each writer decided to write
    wrow,       \* SpecConc: each writer's uncommitted row, or NoRecord
    wn,         \* SpecConc: records each writer's transaction has handled
    idemDb,     \* SpecIdem: the rows of the stored event, by match number
    idemBatch,  \* SpecIdem: the batch that is applied twice
    idemFirst,  \* SpecIdem: the rows left by the first application
    idemStats,  \* SpecIdem: the tally of the last application
    idemRound,  \* SpecIdem: applications done
    mrows,      \* SpecDedup: the MatchesOfAnEvent rows, by id
    total_deleted,  \* SpecDedup: the deletions the sweep reports
    total_updated,  \* SpecDedup: the updates the sweep reports
    dedupDry,   \* SpecDedup: the sweep ran with --dry-run
    dedupDone,  \* SpecDedup: the sweep has run
    mbefore,    \* SpecDedup: the rows as they were before the sweep
    mmodified,  \* SpecDedup: the order in which the rows were last written
    rk,         \* SpecRank: the Ranking rows
    rbatch,     \* SpecRank: the batch of the call that has just returned
    rstats,     \* SpecRank: the tally that call returned
    wmatch,     \* SpecWinner: the MatchesOfAnEvent row of the key, or NoRecord
    wevent,     \* SpecWinner: where today is relative to the event's dates
    wraw,       \* SpecWinner: the last candidate, as the mapper returned it
    wcand,      \* SpecWinner: the same candidate after the consistency check
    wreports,   \* SpecWinner: inconsistencies the last operation reported
    wnamed,     \* SpecWinner: the winner by score that report cites, or None
    wop,        \* SpecWinner: the last operation that ran
    spc,        \* SpecSched: where the auto_live_monitor loop is
    error_count,    \* SpecSched: self.error_count
    error_sleep,    \* SpecSched: the backoff delay of the last error, or 0
    fetched,    \* SpecSched: what the upstream fetch of this tick returned
    interrupted,    \* SpecSched: KeyboardInterrupt has been delivered
    smatches,   \* SpecSched: committed match rows of the event, by number
    swork,      \* SpecSched: the rows as the open transaction sees them
    sn,         \* SpecSched: records of the current batch already written
    splayers,   \* SpecSched: committed Player rows, by id
    failed_ticks,   \* SpecSched: ticks that raised since the last tick that
                    \* ran through, or since the start (history)
    recovered,      \* SpecSched: a tick has run through after a failed one
                    \* (history)
    sactive,        \* SpecSched: has_active_matches of the current tick
    next_check,     \* SpecSched: the interval the last finished tick chose
    prev_check,     \* SpecSched: the interval the tick before it chose
                    \* (history)
    ccmd,       \* SpecCmd: the update command that is running, or "none"
    ci,         \* SpecCmd: iterations of the command's fetch loop done
    total_fetched,  \* SpecCmd: update_players' count of non-empty fetches
    updated_count,  \* SpecCmd: items the command counted as updated
    failed_count,   \* SpecCmd: items the command counted as failed
    coutcome,   \* SpecCmd: per iteration, the fetch result and its handling
    cgap,       \* SpecCmd: seconds since the command's last upstream call
    ccalled,    \* SpecCmd: the command has made an upstream call
    clast_gap,  \* SpecCmd: seconds between the last two upstream calls
    current_time,   \* SpecDetect: timezone.now() of the tick, in minutes
    devents,    \* SpecDetect: the stored Events
    dmatches,   \* SpecDetect: the stored matches of those events
    has_active_matches, \* SpecDetect: the verdict of the detector
    ddone,      \* SpecDetect: the detector has been called
    scenStored, \* SpecScenario: the row of the key, or NoRecord
    scenCalls,  \* SpecScenario: the candidates reconciled so far, in order
    scenOutcomes,   \* SpecScenario: the tally entry of each of them
    existing_match, \* SpecGuard: the stored row the guard is called with
    new_defaults,   \* SpecGuard: the candidate it is called with
    should_skip,    \* SpecGuard: what the guard returned
    ucommitted, \* SpecUnique: committed rows of each logical key, a count
    upending,   \* SpecUnique: each writer's uncommitted inserts, by key
    upc,        \* SpecUnique: where each writer is in save_matches
    ukey,       \* SpecUnique: the key of the record each writer handles
    un,         \* SpecUnique: records each writer's transaction has handled
    uraced,     \* SpecUnique: both writers saw no row of the key at once
    apc,        \* SpecAuto: where each thread of comprehensive_automation is
    ajob,       \* SpecAuto: the periodic job the jobs thread runs, or "none"
    aleft,      \* SpecAuto: commands each thread has still to call
    ainflight,  \* SpecAuto: the threads with an upstream request in flight
    alast,      \* SpecAuto: the periodic jobs that have run today
    odb,        \* SpecOneCall: the rows of the stored event before the call
    onew,       \* SpecOneCall: the rows after the call
    ostats,     \* SpecOneCall: the tally save_matches returned
    ofault,     \* SpecOneCall: the storage error the call met, if any
    obatch,     \* SpecOneCall: matches_data of the call
    oevent,     \* SpecOneCall: event_id of the call
    ofaultin,   \* SpecOneCall: where the store fails during the call
    odone,      \* SpecOneCall: the call has returned
    mcls,       \* SpecMapper: model_class of the call of prepare_model_data
    mdata,      \* SpecMapper: api_data, the raw record
    mout,       \* SpecMapper: prepared_defaults, by model field
    mfk,        \* SpecMapper: the foreign key the call extracted
    mraised,    \* SpecMapper: the call raised
    mdone,      \* SpecMapper: the call is over
    etoday,     \* SpecTourEnd: the date of timezone.now(), as a day number
    eEndDate,   \* SpecTourEnd: EndDate of each stored tournament
    efinished,  \* SpecTourEnd: the tournaments with a Finished match
    processed_tournament_ends,  \* SpecTourEnd: self.processed_tournament_ends
    end_runs,   \* SpecTourEnd: end updates run for each tournament (history)
    vsaver,     \* SpecSavers: the saver that is called
    vdone,      \* SpecSavers: the call is over
    vbatch,     \* SpecSavers: the list the call was given
    vevent,     \* SpecSavers: event_id of the call (save_matches)
    vfault,     \* SpecSavers: the storage error the call met
    vstats,     \* SpecSavers: the tally the call returned
    vmatch0,    \* SpecSavers: the Match rows before the call, by event
    vmatch,     \* SpecSavers: the Match rows, by event and match number
    vtour0,     \* SpecSavers: the ids of the Event rows before the call
    vtour,      \* SpecSavers: the ids of the Event rows
    vplay0,     \* SpecSavers: the ids of the Player rows before the call
    vplay,      \* SpecSavers: the ids of the Player rows
    vrank,      \* SpecSavers: the Ranking rows
    cstored,    \* SpecConverge: the Match row of the key
    cfinal,     \* SpecConverge: the final record upstream settles on
    cserved,    \* SpecConverge: stale snapshots served so far
    clast,      \* SpecConverge: what the last call carried
    cskip,      \* SpecConverge: the guard skipped the last candidate
    qrow,       \* SpecUpsert: the stored Match row before the call
    qapi,       \* SpecUpsert: its api_match_id before the call
    qid,        \* SpecUpsert: the ID of the upstream record
    qmapped,    \* SpecUpsert: the defaults the mapper returned
    qmapped_api,  \* SpecUpsert: api_match_id in the mapper's defaults
    qdefaults_api,  \* SpecUpsert: api_match_id in the defaults written
    qafter,     \* SpecUpsert: the stored row after the call
    qafter_api, \* SpecUpsert: its api_match_id after the call
    qoutcome    \* SpecUpsert: how the candidate was tallied

guardVars == <<stored, stats, wasFinal>>
callVars == <<existing_match, new_defaults, should_skip>>
uniqVars == <<ucommitted, upending, upc, ukey, un, uraced>>
autoVars == <<apc, ajob, aleft, ainflight, alast>>
mapVars == <<mcls, mdata, mout, mfk, mraised, mdone>>
endVars ==
    <<etoday, eEndDate, efinished, processed_tournament_ends, end_runs>>
upsVars ==
    <<qrow, qapi, qid, qmapped, qmapped_api, qdefaults_api, qafter,
      qafter_api, qoutcome>>
convVars == <<cstored, cfinal, cserved, clast, cskip>>
savVars ==
    <<vsaver, vdone, vbatch, vevent, vfault, vstats, vmatch0, vmatch,
      vtour0, vtour, vplay0, vplay, vrank>>
oneVars ==
    <<odb, onew, ostats, ofault, obatch, oevent, ofaultin, odone>>
pairVars == <<pairInit, pairA, pairB, pairAB, pairBA, pairDone>>
batchVars == <<db, bstats, bfault>>
concVars == <<cdb, wpc, wcur, wrow, wn>>
idemVars == <<idemDb, idemBatch, idemFirst, idemStats, idemRound>>
dedupVars ==
    <<mrows, total_deleted, total_updated, dedupDry, dedupDone, mbefore,
      mmodified>>
rankVars == <<rk, rbatch, rstats>>
winnerVars == <<wmatch, wevent, wraw, wcand, wreports, wnamed, wop>>
scenVars == <<scenStored, scenCalls, scenOutcomes>>
detectVars == <<current_time, devents, dmatches, has_active_matches, ddone>>
cmdVars ==
    <<ccmd, ci, total_fetched, updated_count, failed_count, coutcome, cgap,
      ccalled, clast_gap>>
schedVars ==
    <<spc, error_count, error_sleep, fetched, interrupted, smatches, swork,
      sn, splayers, failed_ticks, recovered, sactive, next_check,
      prev_check>>
vars ==
    <<guardVars, pairVars, batchVars, concVars, idemVars, dedupVars, rankVars,
      winnerVars, schedVars, cmdVars, detectVars, scenVars, callVars,
      uniqVars, autoVars, oneVars, mapVars, endVars, savVars, convVars,
      upsVars>>

\* What the actions of one specification leave alone.
exceptGuard ==
    <<pairVars, batchVars, concVars, idemVars, dedupVars, rankVars,
      winnerVars, schedVars, cmdVars, detectVars, scenVars, callVars,
      uniqVars, autoVars, oneVars, mapVars, endVars, savVars, convVars,
      upsVars>>
exceptPair ==
    <<guardVars, batchVars, concVars, idemVars, dedupVars, rankVars,
      winnerVars, schedVars, cmdVars, detectVars, scenVars, callVars,
      uniqVars, autoVars, oneVars, mapVars, endVars, savVars, convVars,
      upsVars>>
exceptBatch ==
    <<guardVars, pairVars, concVars, idemVars, dedupVars, rankVars,
      winnerVars, schedVars, cmdVars, detectVars, scenVars, callVars,
      uniqVars, autoVars, oneVars, mapVars, endVars, savVars, convVars,
      upsVars>>
exceptConc ==
    <<guardVars, pairVars, batchVars, idemVars, dedupVars, rankVars,
      winnerVars, schedVars, cmdVars, detectVars, scenVars, callVars,
      uniqVars, autoVars, oneVars, mapVars, endVars, savVars, convVars,
      upsVars>>
exceptIdem ==
    <<guardVars, pairVars, batchVars, concVars, dedupVars, rankVars,
      winnerVars, schedVars, cmdVars, detectVars, scenVars, callVars,
      uniqVars, autoVars, oneVars, mapVars, endVars, savVars, convVars,
      upsVars>>
exceptDedup ==
    <<guardVars, pairVars, batchVars, concVars, idemVars, rankVars,
      winnerVars, schedVars, cmdVars, detectVars, scenVars, callVars,
      uniqVars, autoVars, oneVars, mapVars, endVars, savVars, convVars,
      upsVars>>
exceptWinner ==
    <<guardVars, pairVars, batchVars, concVars, idemVars, dedupVars, rankVars,
      schedVars, cmdVars, detectVars, scenVars, callVars, uniqVars,
      autoVars, oneVars, mapVars, endVars, savVars, convVars, upsVars>>
exceptSched ==
    <<guardVars, pairVars, batchVars, concVars, idemVars, dedupVars, rankVars,
      winnerVars, cmdVars, detectVars, scenVars, callVars, uniqVars,
      autoVars, oneVars, mapVars, endVars, savVars, convVars, upsVars>>
exceptCmd ==
    <<guardVars, pairVars, batchVars, concVars, idemVars, dedupVars, rankVars,
      winnerVars, schedVars, detectVars, scenVars, callVars, uniqVars,
      autoVars, oneVars, mapVars, endVars, savVars, convVars, upsVars>>
exceptDetect ==
    <<guardVars, pairVars, batchVars, concVars, idemVars, dedupVars, rankVars,
      winnerVars, schedVars, cmdVars, scenVars, callVars, uniqVars,
      autoVars, oneVars, mapVars, endVars, savVars, convVars, upsVars>>
exceptScen ==
    <<guardVars, pairVars, batchVars, concVars, idemVars, dedupVars, rankVars,
      winnerVars, schedVars, cmdVars, detectVars, callVars, uniqVars,
      autoVars, oneVars, mapVars, endVars, savVars, convVars, upsVars>>
exceptCall ==
    <<guardVars, pairVars, batchVars, concVars, idemVars, dedupVars, rankVars,
      winnerVars, schedVars, cmdVars, detectVars, scenVars, uniqVars,
      autoVars, oneVars, mapVars, endVars, savVars, convVars, upsVars>>
exceptUps ==
    <<guardVars, pairVars, batchVars, concVars, idemVars, dedupVars, rankVars,
      winnerVars, schedVars, cmdVars, detectVars, scenVars, callVars,
      uniqVars, autoVars, oneVars, mapVars, endVars, savVars, convVars>>
exceptConv ==
    <<guardVars, pairVars, batchVars, concVars, idemVars, dedupVars, rankVars,
      winnerVars, schedVars, cmdVars, detectVars, scenVars, callVars,
      uniqVars, autoVars, oneVars, mapVars, endVars, savVars, upsVars>>
exceptSav ==
    <<guardVars, pairVars, batchVars, concVars, idemVars, dedupVars, rankVars,
      winnerVars, schedVars, cmdVars, detectVars, scenVars, callVars,
      uniqVars, autoVars, oneVars, mapVars, endVars, convVars, upsVars>>
exceptEnd ==
    <<guardVars, pairVars, batchVars, concVars, idemVars, dedupVars, rankVars,
      winnerVars, schedVars, cmdVars, detectVars, scenVars, callVars,
      uniqVars, autoVars, oneVars, mapVars, savVars, convVars, upsVars>>
exceptMap ==
    <<guardVars, pairVars, batchVars, concVars, idemVars, dedupVars, rankVars,
      winnerVars, schedVars, cmdVars, detectVars, scenVars, callVars,
      uniqVars, autoVars, oneVars, endVars, savVars, convVars, upsVars>>
exceptOne ==
    <<guardVars, pairVars, batchVars, concVars, idemVars, dedupVars, rankVars,
      winnerVars, schedVars, cmdVars, detectVars, scenVars, callVars,
      uniqVars, autoVars, mapVars, endVars, savVars, convVars, upsVars>>
exceptAuto ==
    <<guardVars, pairVars, batchVars, concVars, idemVars, dedupVars, rankVars,
      winnerVars, schedVars, cmdVars, detectVars, scenVars, callVars,
      uniqVars, oneVars, mapVars, endVars, savVars, convVars, upsVars>>
exceptUniq ==
    <<guardVars, pairVars, batchVars, concVars, idemVars, dedupVars, rankVars,
      winnerVars, schedVars, cmdVars, detectVars, scenVars, callVars,
      autoVars, oneVars, mapVars, endVars, savVars, convVars, upsVars>>
exceptRank ==
    <<guardVars, pairVars, batchVars, concVars, idemVars, dedupVars,
      winnerVars, schedVars, cmdVars, detectVars, scenVars, callVars,
      uniqVars, autoVars, oneVars, mapVars, endVars, savVars, convVars,
      upsVars>>

----------------------------------------------------------------------------
(* Values *)

\* Python's None, as a value of a nullable integer field.
None == -1

\* A key that is not in the defaults dict (defaults.get(key) gives None).
Absent == -2

\* The "to be determined" participant of a draw slot.
TBD == 376

\* Status codes as the guard and the sweep read them.
StatusUpcoming == 0
StatusLive == 1
StatusOnBreak == 2
StatusFinished == 3

\* Status of a row created without a Status in its defaults.
StatusDefault == 3

Statuses == {StatusUpcoming, StatusLive, StatusOnBreak, StatusFinished}

\* Real player ids used for slot 1 and slot 2.
RealPair == <<11, 22>>

\* Largest frame score of the model.
MaxScore == 1

Scores == 0..MaxScore

Fields == {"Player1ID", "Player2ID", "Status", "Score1", "Score2"}

\* No row is stored under the logical key.
NoRecord == [exists |-> FALSE]

\* The rows a key can hold: every column is nullable.
Records ==
    [Player1ID : {None, TBD, RealPair[1]},
     Player2ID : {None, TBD, RealPair[2]},
     Status    : Statuses \cup {None},
     Score1    : Scores \cup {None},
     Score2    : Scores \cup {None}]

\* The defaults dicts prepare_model_data can return for a match record: a
\* field of the upstream record that is missing or unconvertible is not a
\* key of the dict (Absent), a null field is kept as None.
Payloads ==
    [Player1ID : {Absent, None, TBD, RealPair[1]},
     Player2ID : {Absent, None, TBD, RealPair[2]},
     Status    : Statuses \cup {None, Absent},
     Score1    : Scores \cup {None, Absent},
     Score2    : Scores \cup {None, Absent}]

\* The complete upstream snapshots: every field present and not null.
CompletePayloads ==
    [Player1ID : {TBD, RealPair[1]},
     Player2ID : {TBD, RealPair[2]},
     Status    : {StatusUpcoming, StatusLive, StatusFinished},
     Score1    : Scores,
     Score2    : Scores]

\* dict.get(key): None when the key is not in the dict.
Get(d, f) == IF d[f] = Absent THEN None ELSE d[f]

ZeroStats == [created |-> 0, updated |-> 0, skipped |-> 0, failed |-> 0]

----------------------------------------------------------------------------
(* The anti-regression guard *)

ExistingHasRealPlayers(e) ==
    /\ e.Player1ID # None /\ e.Player1ID # TBD
    /\ e.Player2ID # None /\ e.Player2ID # TBD

NewHasTbd(d) == Get(d, "Player1ID") = TBD \/ Get(d, "Player2ID") = TBD

ExistingHasScores(e) ==
    /\ e.Score1 # None /\ e.Score2 # None
    /\ (e.Score1 > 0 \/ e.Score2 > 0)

NewHasNoScores(d) ==
    \/ Get(d, "Score1") = None
    \/ Get(d, "Score2") = None
    \/ (Get(d, "Score1") = 0 /\ Get(d, "Score2") = 0)

\* A guard that lets a candidate with one real player through.
Rule1BothTbd(e, d) ==
    /\ ExistingHasRealPlayers(e)
    /\ Get(d, "Player1ID") = TBD /\ Get(d, "Player2ID") = TBD

\* A guard that keeps a Finished row only while it has scores.
Rule2Scored(e, d) ==
    /\ e.Status = StatusFinished /\ Get(d, "Status") = StatusUpcoming
    /\ e.Score1 # None /\ e.Score2 # None

\* A guard that protects only rows on which both players have scored.
Rule3BothScored(e, d) ==
    /\ e.Score1 # None /\ e.Score2 # None
    /\ e.Score1 > 0 /\ e.Score2 > 0
    /\ NewHasNoScores(d)

\* A guard that protects a scored row against every candidate.
Rule3AnyCandidate(e, d) == ExistingHasScores(e)

Rule1(e, d) == ExistingHasRealPlayers(e) /\ NewHasTbd(d)

Rule2(e, d) == e.Status = StatusFinished /\ Get(d, "Status") = StatusUpcoming

Rule3(e, d) == ExistingHasScores(e) /\ NewHasNoScores(d)

\* _should_skip_match_update: TRUE means the candidate is skipped.
ShouldSkipMatchUpdate(e, d) == Rule1(e, d) \/ Rule2(e, d) \/ Rule3(e, d)

\* The guard has not been called.
CallIdle ==
    /\ existing_match = NoRecord /\ new_defaults = NoRecord
    /\ should_skip = "none"

----------------------------------------------------------------------------
(* update_or_create by logical key *)

\* The column a new row gets when the defaults do not name it.
FieldDefault(f) == IF f = "Status" THEN StatusDefault ELSE None

\* An upsert that writes only when it inserts.
CreateOnly(e, d) ==
    IF e = NoRecord
    THEN [f \in Fields |-> IF d[f] # Absent THEN d[f] ELSE FieldDefault(f)]
    ELSE e

\* objects.update_or_create(**lookup, defaults=d): only the keys of the
\* defaults are written; a new row takes the column defaults for the rest.
UpdateOrCreate(e, d) ==
    [f \in Fields |->
        IF d[f] # Absent THEN d[f]
        ELSE IF e = NoRecord THEN FieldDefault(f) ELSE e[f]]

\* One candidate of save_matches against the row e of its key: the row left
\* behind (lines 312-321 without a storage error).
Reconcile(e, d) ==
    IF e # NoRecord /\ ShouldSkipMatchUpdate(e, d) THEN e
    ELSE UpdateOrCreate(e, d)

\* The tally entry of that candidate.
Outcome(e, d) ==
    IF e # NoRecord /\ ShouldSkipMatchUpdate(e, d) THEN "skipped"
    ELSE IF e = NoRecord THEN "created" ELSE "updated"

Tally(s, o) == [s EXCEPT ![o] = @ + 1]

----------------------------------------------------------------------------
(* Information levels, used to state the claims *)

IsReal(p) == p # None /\ p # TBD

HasPlaceholder(r) == r.Player1ID = TBD \/ r.Player2ID = TBD

HasNoScore(r) ==
    \/ r.Score1 = None \/ r.Score2 = None
    \/ (r.Score1 = 0 /\ r.Score2 = 0)

IsFinalRecord(r) ==
    /\ r # NoRecord
    /\ IsReal(r.Player1ID) /\ IsReal(r.Player2ID)
    /\ r.Status = StatusFinished
    /\ ~HasNoScore(r)

StatusLevel(s) ==
    IF s = StatusUpcoming THEN 0
    ELSE IF s = StatusFinished THEN 2
    ELSE 1

----------------------------------------------------------------------------
(* save_matches on a batch *)

\* Longest batch of the model.
MaxBatch == 2

\* The event the store holds and an event id it does not hold.
EventIds == <<100, 200>>
StoredEvent == EventIds[1]
UnknownEvent == EventIds[2]

\* Match numbers (the round is the same for all).
BatchKeys == {1, 2}

\* Three upstream snapshots of a match: the draw placeholder, the match
\* in progress and the final result.
DrawSnapshot ==
    [Player1ID |-> TBD, Player2ID |-> TBD, Status |-> StatusUpcoming,
     Score1 |-> 0, Score2 |-> 0]
LiveSnapshot ==
    [Player1ID |-> RealPair[1], Player2ID |-> RealPair[2],
     Status |-> StatusLive, Score1 |-> MaxScore, Score2 |-> 0]
FinalSnapshot ==
    [Player1ID |-> RealPair[1], Player2ID |-> RealPair[2],
     Status |-> StatusFinished, Score1 |-> MaxScore, Score2 |-> 0]

BatchPayloads == {DrawSnapshot, LiveSnapshot, FinalSnapshot}

\* The elements of matches_data: a match record with its Round/Number and
\* its defaults, or a record save_matches cannot key: not a dict, Round or
\* Number missing, Round or Number not an integer.
BatchItems ==
    [kind : {"match"}, key : BatchKeys, d : BatchPayloads]
    \cup [kind : {"notdict", "nokey", "badkey"}, key : {1}, d : {DrawSnapshot}]

Batches == UNION {[1..n -> BatchItems] : n \in 0..MaxBatch}

\* The storage error of one call: none, update_or_create raises for the
\* record at position at (caught in update_or_create_item), or the lookup of
\* the existing row raises for it (not caught inside the transaction).
BatchFaults(b) ==
    {[kind |-> "none", at |-> 0]}
    \cup [kind : {"write", "read"}, at : 1..Len(b)]

\* A loop body in which a record that cannot be keyed raises.
BatchStepBadRaises(acc, b, i, fault) ==
    LET it == b[i] IN
    IF it.kind # "match"
    THEN [acc EXCEPT !.raised = TRUE, !.fault = "read"]
    ELSE IF fault.kind = "read" /\ fault.at = i
    THEN [acc EXCEPT !.raised = TRUE, !.fault = "read"]
    ELSE LET e == acc.db[it.key] IN
         IF e # NoRecord /\ ShouldSkipMatchUpdate(e, it.d)
         THEN [acc EXCEPT !.stats = Tally(@, "skipped")]
         ELSE IF fault.kind = "write" /\ fault.at = i
         THEN [acc EXCEPT !.stats = Tally(@, "failed"), !.fault = "write"]
         ELSE [acc EXCEPT !.db[it.key] = UpdateOrCreate(e, it.d),
                          !.stats = Tally(@, Outcome(e, it.d))]

EmptyDb == [k \in BatchKeys |-> NoRecord]

\* The loop body of save_matches for the record at position i, on the
\* running state acc = [db, stats, fault, raised].
BatchStep(acc, b, i, fault) ==
    LET it == b[i] IN
    IF it.kind # "match"
    THEN [acc EXCEPT !.stats = Tally(@, "skipped")]
    ELSE IF fault.kind = "read" /\ fault.at = i
    THEN [acc EXCEPT !.raised = TRUE, !.fault = "read"]
    ELSE LET e == acc.db[it.key] IN
         IF e # NoRecord /\ ShouldSkipMatchUpdate(e, it.d)
         THEN [acc EXCEPT !.stats = Tally(@, "skipped")]
         ELSE IF fault.kind = "write" /\ fault.at = i
         THEN [acc EXCEPT !.stats = Tally(@, "failed"), !.fault = "write"]
         ELSE [acc EXCEPT !.db[it.key] = UpdateOrCreate(e, it.d),
                          !.stats = Tally(@, Outcome(e, it.d))]

RECURSIVE BatchLoop(_, _, _, _)
\* for match_data in matches_data, from position i, until an error escapes.
BatchLoop(acc, b, i, fault) ==
    IF i > Len(b) \/ acc.raised THEN acc
    ELSE BatchLoop(BatchStep(acc, b, i, fault), b, i + 1, fault)

\* A save_matches whose except clause counts the whole batch as failed.
SaveMatchesFailedAll(d0, ev, b, fault) ==
    IF Len(b) = 0 THEN [db |-> d0, stats |-> ZeroStats, fault |-> "none"]
    ELSE IF ev # StoredEvent
    THEN [db |-> d0, stats |-> [ZeroStats EXCEPT !.failed = Len(b)],
          fault |-> "none"]
    ELSE LET start == [db |-> d0, stats |-> ZeroStats, fault |-> "none",
                       raised |-> FALSE]
             end == BatchLoop(start, b, 1, fault)
         IN IF end.raised
            THEN [db |-> d0,
                  stats |-> [created |-> 0, updated |-> 0,
                             skipped |-> end.stats.skipped,
                             failed |-> Len(b)],
                  fault |-> end.fault]
            ELSE [db |-> end.db, stats |-> end.stats, fault |-> end.fault]

\* save_matches(event_id, b) on the rows d0 of the stored event: the rows
\* and the tally it leaves, and the storage error it met.
SaveMatches(d0, ev, b, fault) ==
    IF Len(b) = 0 THEN [db |-> d0, stats |-> ZeroStats, fault |-> "none"]
    ELSE IF ev # StoredEvent
    THEN [db |-> d0, stats |-> [ZeroStats EXCEPT !.failed = Len(b)],
          fault |-> "none"]
    ELSE LET start == [db |-> d0, stats |-> ZeroStats, fault |-> "none",
                       raised |-> FALSE]
             end == BatchLoop(start, b, 1, fault)
         IN IF end.raised
            THEN \* transaction.atomic rolls back; the except clause tallies
                 [db |-> d0,
                  stats |-> [created |-> 0, updated |-> 0,
                             skipped |-> end.stats.skipped,
                             failed |-> Len(b) - end.stats.skipped],
                  fault |-> end.fault]
            ELSE [db |-> end.db, stats |-> end.stats, fault |-> end.fault]

NoFault == [kind |-> "none", at |-> 0]

BatchIdle == db = EmptyDb /\ bstats = ZeroStats /\ bfault = "none"

\* The stores of one event that hold, per match number, no row or the row
\* one snapshot created.
SnapshotStores ==
    [BatchKeys ->
        {NoRecord} \cup {UpdateOrCreate(NoRecord, d) : d \in BatchPayloads}]

OneIdle ==
    /\ odb = EmptyDb /\ onew = EmptyDb /\ ostats = ZeroStats
    /\ ofault = "none" /\ obatch = <<>> /\ oevent = StoredEvent
    /\ ofaultin = NoFault /\ odone = FALSE

\* The processes that call save_matches on the same store: the automatic
\* loop and an operator-triggered sync.
Writers == {"auto", "manual"}

ConcIdle ==
    /\ cdb = NoRecord
    /\ wpc = [w \in Writers |-> "idle"]
    /\ wcur = [w \in Writers |-> NoRecord]
    /\ wrow = [w \in Writers |-> NoRecord]
    /\ wn = [w \in Writers |-> 0]

IdemIdle ==
    /\ idemDb = EmptyDb /\ idemBatch = <<>> /\ idemFirst = EmptyDb
    /\ idemStats = ZeroStats /\ idemRound = 0

----------------------------------------------------------------------------
(* cleanup_duplicate_matches: the duplicate sweep *)

\* Most rows of the store the sweep runs on.
MaxRows == 3

\* A stored match as the sweep reads it: its number within the round (the
\* event and the round are the same for all), its participants, its Status
\* and whether its ScheduledDate is before the cutoff (now - 6 hours).
MatchRows ==
    [key : BatchKeys,
     Player1ID : {TBD, RealPair[1]},
     Player2ID : {TBD, RealPair[2]},
     Status : {StatusUpcoming, StatusFinished},
     old : BOOLEAN]

\* The stores: position i holds the row with id i, or NoRecord.
MatchStores == [1..MaxRows -> MatchRows \cup {NoRecord}]

\* The stores whose rows all share one (Event, Round, Number).
GroupStores ==
    [1..MaxRows -> {r \in MatchRows : r.key = 1} \cup {NoRecord}]

Existing(st) == {i \in DOMAIN st : st[i] # NoRecord}

\* match.Player1ID == 376 or match.Player2ID == 376
IsTbdMatch(r) == r.Player1ID = TBD \/ r.Player2ID = TBD

\* The (Event, Round, Number) groups with count > 1.
duplicates(st) ==
    {k \in BatchKeys : Cardinality({i \in Existing(st) : st[i].key = k}) > 1}

real_matches(st, k) ==
    {i \in Existing(st) : st[i].key = k /\ ~IsTbdMatch(st[i])}

tbd_matches(st, k) ==
    {i \in Existing(st) : st[i].key = k /\ IsTbdMatch(st[i])}

\* The first row of an id-ordered list.
FirstById(ids) == CHOOSE i \in ids : \A j \in ids : i <= j

\* A sweep that keeps the first row of a group whatever the rows hold.
GroupDeletesKeepFirst(st, k) ==
    {i \in Existing(st) : st[i].key = k}
        \ {FirstById({i \in Existing(st) : st[i].key = k})}

\* Step 1, decision logic for one duplicate group: the ids it deletes.
GroupDeletes(st, k) ==
    IF real_matches(st, k) # {} /\ tbd_matches(st, k) # {}
    THEN tbd_matches(st, k)
    ELSE IF Cardinality(real_matches(st, k)) > 1
    THEN real_matches(st, k) \ {FirstById(real_matches(st, k))}
    ELSE IF Cardinality(tbd_matches(st, k)) > 1
    THEN tbd_matches(st, k) \ {FirstById(tbd_matches(st, k))}
    ELSE {}

Step1Deletes(st) == UNION {GroupDeletes(st, k) : k \in duplicates(st)}

DeleteRows(st, ids) ==
    [i \in DOMAIN st |-> IF i \in ids THEN NoRecord ELSE st[i]]

\* Step 2: the rows with Status 3 and a TBD participant.
tbd_finished(st) ==
    {i \in Existing(st) : st[i].Status = StatusFinished /\ IsTbdMatch(st[i])}

\* Step 3: the rows with Status 0, a date before the cutoff and a TBD
\* participant.
bad_matches(st) ==
    {i \in Existing(st) :
        st[i].Status = StatusUpcoming /\ st[i].old /\ IsTbdMatch(st[i])}

MarkFinished(st, ids) ==
    [i \in DOMAIN st |->
        IF i \in ids THEN [st[i] EXCEPT !.Status = StatusFinished]
        ELSE st[i]]

\* handle(dry_run) on the store st: the store it leaves and its counters.
\* With --dry-run every step counts on the unchanged store.
CleanupHandle(st, dry) ==
    LET st1 == IF dry THEN st ELSE DeleteRows(st, Step1Deletes(st))
        st2 == IF dry THEN st ELSE DeleteRows(st1, tbd_finished(st1))
        st3 == IF dry THEN st ELSE MarkFinished(st2, bad_matches(st2))
    IN [rows |-> st3,
        deleted |-> Cardinality(Step1Deletes(st))
                    + Cardinality(tbd_finished(st1)),
        updated |-> Cardinality(bad_matches(st2))]

\* MatchesOfAnEvent has no modification timestamp; the order of the last
\* writes is a fact about the history of the store. Rows written only when
\* they were created were last written in the order of their ids.
CreationOrder == [i \in 1..MaxRows |-> i]

\* Every order in which the rows can have been last written: position i
\* holds the rank of row i, the highest rank is the most recent write.
ModificationOrders ==
    {o \in [1..MaxRows -> 1..MaxRows] : \A i, j \in 1..MaxRows :
        o[i] = o[j] => i = j}

DedupIdle ==
    /\ mrows = [i \in 1..MaxRows |-> NoRecord]
    /\ total_deleted = 0 /\ total_updated = 0
    /\ dedupDry = FALSE /\ dedupDone = FALSE
    /\ mbefore = mrows /\ mmodified = CreationOrder

----------------------------------------------------------------------------
(* save_rankings *)

\* The stored player and a player id the store does not hold.
PlayerIds == <<1, 999>>
StoredPlayers == {PlayerIds[1]}
MissingPlayer == PlayerIds[2]

\* Ranking ids, of stored rows and of upstream records.
RankIds == {501, 502}

RankSeasons == {2024}

RT_MONEY_RANKINGS == "MoneyRankings"

\* Longest batch of ranking records.
MaxRankBatch == 2

\* The Ranking rows: ID is the primary key, Player and Season are nullable.
RankRows ==
    [ID : RankIds,
     Player : StoredPlayers \cup {None},
     Season : RankSeasons \cup {None},
     Type : {RT_MONEY_RANKINGS},
     Position : {1, 2}]

\* The elements of rankings_data, their ID apart: an upstream ranking
\* record (its Season may be null, or unconvertible and then not a key of
\* the defaults), or something that is not a dict.
RankItems ==
    [kind : {"ranking"},
     PlayerID : StoredPlayers \cup {MissingPlayer, None},
     Season : RankSeasons \cup {None, Absent},
     Position : {1, 2}]
    \cup [kind : {"notdict"}, PlayerID : {None}, Season : {None},
          Position : {1}]

\* The record at position i of a batch: upstream gives every record of a
\* batch its own ID, the first ones those of the stored rows.
RankRecord(it, i) ==
    [kind |-> it.kind, ID |-> 500 + i, PlayerID |-> it.PlayerID,
     Season |-> it.Season, Position |-> it.Position]

RankBatches ==
    UNION {{[i \in 1..n |-> RankRecord(c[i], i)] : c \in [1..n -> RankItems]}
           : n \in 0..MaxRankBatch}

\* prepare_data_for_model(Ranking, record): ID is the primary key and
\* PlayerID names no model field, so neither is a key of the defaults.
RankDefaults(it) ==
    [Season |-> it.Season, Type |-> RT_MONEY_RANKINGS,
     Position |-> it.Position]

\* A lookup that finds the row by the id of the upstream record.
RankingLookupById(player, d, it) ==
    [keys |-> {"ID"},
     val |-> [ID |-> it.ID, Player |-> player, Season |-> Get(d, "Season"),
              Type |-> d.Type]]

\* The lookup of save_rankings: the logical key (Player, Season, Type).
RankingLookup(player, d, it) ==
    [keys |-> {"Player", "Season", "Type"},
     val |-> [ID |-> None, Player |-> player, Season |-> Get(d, "Season"),
              Type |-> d.Type]]

\* The rows a lookup finds (a None value is matched with IS NULL).
Matching(rows, lk) == {r \in rows : \A f \in lk.keys : r[f] = lk.val[f]}

\* unique_together (Player, Season, Type): a row with a NULL in the triple
\* collides with nothing.
UniqueTogetherOk(rows, r) ==
    ~\E o \in rows :
        /\ r.Player # None /\ r.Season # None
        /\ o.Player = r.Player /\ o.Season = r.Season /\ o.Type = r.Type

\* update_or_create_item(Ranking, lk, d): the rows left and the outcome.
\* A storage error (several rows found, NULL or duplicate primary key,
\* unique_together) is caught and gives "failed".
RankUpdateOrCreate(rows, lk, d) ==
    LET m == Matching(rows, lk)
        fail == [rows |-> rows, outcome |-> "failed"]
    IN
    IF Cardinality(m) > 1 THEN fail
    ELSE IF Cardinality(m) = 1
    THEN LET r == CHOOSE x \in m : TRUE
             r2 == [r EXCEPT
                      !.Season = IF d.Season = Absent THEN @ ELSE d.Season,
                      !.Type = d.Type,
                      !.Position = d.Position]
         IN IF UniqueTogetherOk(rows \ {r}, r2)
            THEN [rows |-> (rows \ {r}) \cup {r2}, outcome |-> "updated"]
            ELSE fail
    ELSE LET new ==
                 [ID |-> IF "ID" \in lk.keys THEN lk.val.ID ELSE None,
                  Player |-> IF "Player" \in lk.keys THEN lk.val.Player
                             ELSE None,
                  Season |-> IF d.Season # Absent THEN d.Season
                             ELSE IF "Season" \in lk.keys THEN lk.val.Season
                             ELSE None,
                  Type |-> d.Type,
                  Position |-> d.Position]
         IN IF /\ new.ID # None
               /\ \A o \in rows : o.ID # new.ID
               /\ UniqueTogetherOk(rows, new)
            THEN [rows |-> rows \cup {new}, outcome |-> "created"]
            ELSE fail

\* A guard that takes every parent as stored.
ParentAssumed(player_id, players_map) == TRUE

\* player_id and player_id in players_map
ParentResolved(player_id, players_map) == player_id \in players_map

\* First loop: a record is kept when it is a dict with a truthy PlayerID.
IsValidRanking(it) == it.kind = "ranking" /\ it.PlayerID # None

\* Second loop body for the record it, on acc = [rows, stats].
RankStep(acc, it, players_map) ==
    IF ~ParentResolved(it.PlayerID, players_map)
    THEN [acc EXCEPT !.stats = Tally(@, "skipped")]
    ELSE LET d == RankDefaults(it)
             res == RankUpdateOrCreate(
                        acc.rows, RankingLookup(it.PlayerID, d, it), d)
         IN [rows |-> res.rows, stats |-> Tally(acc.stats, res.outcome)]

RECURSIVE RankLoop(_, _, _, _)
\* for ranking_data in valid_rankings, from position i.
RankLoop(acc, valid_rankings, i, players_map) ==
    IF i > Len(valid_rankings) THEN acc
    ELSE RankLoop(RankStep(acc, valid_rankings[i], players_map),
                  valid_rankings, i + 1, players_map)

\* save_rankings(b) on the rows: the rows and the tally it leaves.
SaveRankings(rows, b) ==
    IF Len(b) = 0 THEN [rows |-> rows, stats |-> ZeroStats]
    ELSE LET valid_rankings == SelectSeq(b, IsValidRanking)
             player_ids ==
                 {valid_rankings[i].PlayerID : i \in DOMAIN valid_rankings}
             players_map == StoredPlayers \cap player_ids
             start ==
                 [rows |-> rows,
                  stats |-> [ZeroStats EXCEPT
                               !.skipped = Len(b) - Len(valid_rankings)]]
         IN RankLoop(start, valid_rankings, 1, players_map)

\* At most one row per (Player, Season, Type), and per primary key.
TriplesUnique(rows) ==
    \A r1, r2 \in rows :
        (r1.Player = r2.Player /\ r1.Season = r2.Season /\ r1.Type = r2.Type)
            => r1 = r2

RankIdle == rk = {} /\ rbatch = <<>> /\ rstats = ZeroStats

----------------------------------------------------------------------------
(* Winner and scores: the consistency check and the operations that write *)
(* WinnerID                                                                *)

WinFields == Fields \cup {"WinnerID"}

\* Status code update_live_matches writes for a match it closes.
StatusClosedByFix == 2

\* The defaults dicts of the winner model: both participants are real.
WinPayloads ==
    [Player1ID : {RealPair[1]},
     Player2ID : {RealPair[2]},
     Status    : {StatusLive, StatusFinished},
     Score1    : Scores \cup {None},
     Score2    : Scores \cup {None},
     WinnerID  : {Absent, None, RealPair[1], RealPair[2]}]

\* No candidate went through save_matches in the last operation.
NoCandidate == [present |-> FALSE]

\* A check that never finds anything.
NeverInconsistent(d) == FALSE

\* The condition under which _validate_match_score_consistency logs.
ScoreInconsistent(d) ==
    LET score1 == Get(d, "Score1")
        score2 == Get(d, "Score2")
        winner_id == Get(d, "WinnerID")
        player1_id == Get(d, "Player1ID")
        player2_id == Get(d, "Player2ID")
        status == Get(d, "Status")
    IN  /\ status = 3 /\ score1 # None /\ score2 # None /\ winner_id # None
        /\ \/ (score1 > score2 /\ winner_id # player1_id)
           \/ (score2 > score1 /\ winner_id # player2_id)

\* _validate_match_score_consistency(defaults, ...): the defaults it leaves
\* and the number of inconsistencies it logs. The correcting assignments
\* are commented out in the source.
ValidateMatchScoreConsistency(d) ==
    [defaults |-> d,
     reports |-> IF ScoreInconsistent(d) THEN 1 ELSE 0,
     named |-> IF ~ScoreInconsistent(d) THEN None
               ELSE IF Get(d, "Score1") > Get(d, "Score2")
               THEN Get(d, "Player1ID") ELSE Get(d, "Player2ID")]

\* update_or_create on a row that has a WinnerID column.
WinUpdateOrCreate(e, d) ==
    [f \in WinFields |->
        IF d[f] # Absent THEN d[f]
        ELSE IF e = NoRecord THEN FieldDefault(f) ELSE e[f]]

\* One candidate of save_matches, after the consistency check.
SaveMatchItem(e, d) ==
    IF e # NoRecord /\ ShouldSkipMatchUpdate(e, d) THEN e
    ELSE WinUpdateOrCreate(e, d)

\* The winner _fix_finished_tournaments derives from the scores of a match.
WinnerFromScores(m) ==
    IF m.Score1 # None /\ m.Score2 # None /\ m.Score1 > m.Score2
        THEN m.Player1ID
    ELSE IF m.Score1 # None /\ m.Score2 # None /\ m.Score2 > m.Score1
        THEN m.Player2ID
    ELSE m.WinnerID

\* _fix_finished_tournaments on the match of an event: a Running match of an
\* event whose EndDate is before today is closed.
FixFinishedTournaments(m, ended) ==
    IF ended /\ m # NoRecord /\ m.Status = StatusLive
    THEN [m EXCEPT !.WinnerID = WinnerFromScores(m),
                   !.Status = StatusClosedByFix]
    ELSE m

\* The queryset of fix_score_inconsistencies.
FixCandidate(m) ==
    /\ m # NoRecord
    /\ m.Status = 3
    /\ m.Score1 # None /\ m.Score2 # None /\ m.WinnerID # None
    /\ m.Player1ID # None /\ m.Player2ID # None
    /\ ~(m.Score1 = 0 /\ m.Score2 = 0)

\* _analyze_match_consistency: is_inconsistent.
IsInconsistent(m) ==
    \/ (m.Score1 > m.Score2 /\ m.WinnerID # m.Player1ID)
    \/ (m.Score2 > m.Score1 /\ m.WinnerID # m.Player2ID)
    \/ (m.Score1 = m.Score2 /\ m.WinnerID # 0)

\* _analyze_match_consistency: the WinnerID of suggested_fix.
SuggestedWinner(m) ==
    IF m.Score1 > m.Score2 THEN m.Player1ID
    ELSE IF m.Score2 > m.Score1 THEN m.Player2ID
    ELSE None

\* _apply_fix on a match the analysis found inconsistent.
ApplyFix(m) ==
    IF m.Score1 > m.Score2 THEN [m EXCEPT !.WinnerID = m.Player1ID]
    ELSE IF m.Score2 > m.Score1 THEN [m EXCEPT !.WinnerID = m.Player2ID]
    ELSE [m EXCEPT !.WinnerID = None]

\* The events update_live_matches polls: StartDate <= tomorrow and
\* EndDate >= yesterday.
EventPolled(ev) == ev \in {"running", "ended_yesterday"}

\* The events _fix_finished_tournaments looks at: EndDate < today.
EventEnded(ev) == ev \in {"ended_yesterday", "ended_earlier"}

WinnerIdle ==
    /\ wmatch = NoRecord /\ wevent = "running"
    /\ wraw = NoCandidate /\ wcand = NoCandidate
    /\ wreports = 0 /\ wnamed = None /\ wop = "none"

----------------------------------------------------------------------------
(* The scheduler: the control loop of auto_live_monitor *)

\* self.max_errors
max_errors == 10

\* --active-interval and --sleep-interval, by default.
active_interval == 120

sleep_interval == 900

\* A loop that always waits the long interval.
AlwaysSleepInterval(active) == sleep_interval

\* next_check, as the two branches of the tick assign it.
NextCheck(active) == IF active THEN active_interval ELSE sleep_interval

\* A loop that retries forever.
NeverTooMany(n) == FALSE

\* The loop leaves on its own after this many consecutive errors.
TooManyErrors(n) == n >= max_errors

\* A backoff without the cap.
ErrorSleepUncapped(n) == 30 * (2 ^ n)

\* error_sleep = min(300, 30 * (2 ** self.error_count))
ErrorSleep(n) == IF 30 * (2 ^ n) < 300 THEN 30 * (2 ^ n) ELSE 300

\* handle has returned (break) or has been left by an exception.
Terminal == {"stopped", "crashed"}

\* The records of one fetched batch, by position.
SchedKeys == {1, 2}

\* A store whose rows all carry the data of generation g.
AllAt(g) == [k \in SchedKeys |-> g]

\* The generation the next fetched batch brings, given the first row.
NextGeneration(st) == 1 - st[1]

\* No batch is half applied: every row carries the same generation.
Uniform(st) == \A j, k \in SchedKeys : st[j] = st[k]

SchedIdle ==
    /\ spc = "loop" /\ error_count = 0 /\ error_sleep = 0
    /\ fetched = "none" /\ interrupted = FALSE
    /\ smatches = AllAt(0) /\ swork = AllAt(0) /\ sn = 0
    /\ splayers = AllAt(0)
    /\ failed_ticks = 0 /\ recovered = FALSE
    /\ sactive = FALSE /\ next_check = 0 /\ prev_check = 0

----------------------------------------------------------------------------
(* The field mapper: prepare_model_data and the cleaners it calls *)

\* Values of a raw record and of the payload, as a type tag and a text. A
\* key that is not in the dict has the value Missing.
Missing == [tag |-> "missing", text |-> ""]
PyNone == [tag |-> "None", text |-> ""]
PyInt(t) == [tag |-> "int", text |-> t]
PyStr(t) == [tag |-> "str", text |-> t]
PyFloat(t) == [tag |-> "float", text |-> t]

\* The values upstream sends for a field: null, an integer, a numeric
\* string, a float, a string that is no number, and a string float()
\* accepts and int() does not.
RawValues ==
    {PyNone, PyInt("7"), PyStr("7"), PyFloat("7.9"), PyStr("abc"),
     PyStr("Infinity")}

\* clean_int, lines 24-38: the value returned, or raised when int() fails
\* with OverflowError, which the function does not catch.
CleanInt(v) ==
    IF v = PyNone \/ v = PyStr("") THEN [raised |-> FALSE, value |-> PyNone]
    ELSE IF v.tag = "int" THEN [raised |-> FALSE, value |-> v]
    ELSE IF v = PyStr("7") THEN [raised |-> FALSE, value |-> PyInt("7")]
    ELSE IF v = PyFloat("7.9") THEN [raised |-> FALSE, value |-> PyInt("7")]
    ELSE IF v = PyStr("Infinity") THEN [raised |-> TRUE, value |-> PyNone]
    ELSE [raised |-> FALSE, value |-> PyNone]

\* The two target entities of the model and the keys of their raw records.
ModelClasses == {"Ranking", "RoundDetails"}

ApiKeys(cls) ==
    IF cls = "Ranking" THEN {"ID", "Player", "Position", "PlayerID"}
    ELSE {"Event", "Round", "Money"}

\* model_class._meta.get_field(name): what kind of field the key names;
\* "none" when _get_model_field_name finds no field for the key.
FieldKind(cls, key) ==
    IF cls = "Ranking"
    THEN CASE key = "ID" -> "primary_key"
           [] key = "Player" -> "relation"
           [] key = "Position" -> "IntegerField"
           [] OTHER -> "none"
    ELSE CASE key = "Event" -> "relation"
           [] key = "Round" -> "IntegerField"
           [] key = "Money" -> "DecimalField"
           [] OTHER -> "none"

\* _clean_field_value, lines 167-200: None for a primary key or a
\* relation, the cleaner of the field type, the value itself for a field
\* type without a cleaner; any exception gives None.
CleanFieldValue(cls, key, v) ==
    IF FieldKind(cls, key) \in {"primary_key", "relation"} THEN PyNone
    ELSE IF FieldKind(cls, key) = "IntegerField"
    THEN IF CleanInt(v).raised THEN PyNone ELSE CleanInt(v).value
    ELSE v

\* _extract_foreign_keys, lines 134-149: clean_int of PlayerID for a
\* Ranking, outside any try block.
ExtractForeignKeys(cls, data) ==
    IF cls = "Ranking" /\ data["PlayerID"] # Missing
    THEN CleanInt(data["PlayerID"])
    ELSE [raised |-> FALSE, value |-> PyNone]

\* prepare_model_data, lines 95-132: the defaults by model field (Missing
\* for a field that is no key of the dict), the foreign key, and whether
\* the call raised.
PrepareModelData(cls, data) ==
    LET fk == ExtractForeignKeys(cls, data)
        fields == {k \in ApiKeys(cls) : FieldKind(cls, k) # "none"}
    IN [raised |-> fk.raised,
        fk |-> fk.value,
        defaults |->
            [k \in fields |->
                IF fk.raised \/ data[k] = Missing THEN Missing
                ELSE LET c == CleanFieldValue(cls, k, data[k]) IN
                     IF c # PyNone \/ data[k] = PyNone THEN c ELSE Missing]]

----------------------------------------------------------------------------
(* The tournament-end updates of auto_live_monitor *)

\* The stored tournaments, by ID.
Tournaments == {1, 2}

\* The last day of the model.
MaxDay == 12

\* The days on which the tournaments of the model end.
EndDays == 1..3

\* timedelta(hours=48) and timedelta(days=7), in days.
RecentDays == 2

ProcessedKeptDays == 7

\* recently_ended: EndDate__gte=end_cutoff, EndDate__lt=current_time.
RecentlyEnded(today, enddate) ==
    {t \in Tournaments :
        today - RecentDays <= enddate[t] /\ enddate[t] < today}

\* A cleanup that forgets a tournament the day after it was processed.
OldTournamentsNextDay(today, enddate, processed) ==
    {t \in processed : enddate[t] < today - 1}

\* old_tournaments: EndDate__lt=old_cutoff, ID__in=processed.
OldTournaments(today, enddate, processed) ==
    {t \in processed : enddate[t] < today - ProcessedKeptDays}

----------------------------------------------------------------------------
(* comprehensive_automation in full mode: two threads of one process *)

\* _start_full_automation: the scheduler thread runs _run_scheduler, the
\* main thread runs smart_live_scheduler.
Threads == {"jobs", "live"}

\* The commands each periodic job calls, in order; every one of them
\* fetches from the upstream API.
JobCommands ==
    [daily |-> <<"update_tournaments", "update_live_matches",
                 "update_rankings">>,
     weekly |-> <<"update_players", "update_players", "update_rankings",
                  "update_round_details">>,
     monthly |-> <<"update_tournaments", "update_players",
                   "update_rankings">>]

Jobs == {"daily", "weekly", "monthly"}

\* The tournaments one monitoring check finds live or stuck, at most.
MaxLiveEvents == 3

----------------------------------------------------------------------------
(* The update commands: fetch loops and rate-limit delays *)

\* time.sleep(6) between requests.
RateLimitDelay == 6

\* Longest list of events, player categories or ranking types of a run.
MaxItems == 3

Commands ==
    {"update_live_matches", "update_matches", "update_players",
     "update_rankings"}

\* The commands that fetch the current season when none is given.
SeasonCommands == {"update_players", "update_rankings"}

\* What a fetch_* function of the API client returns: None, [] or a list.
FetchResults == {"failure", "empty", "list"}

\* How the command counts an item whose fetch returned r.
Counted(cmd, r) ==
    IF cmd = "update_live_matches"
        THEN (IF r = "list" THEN "updated" ELSE "failed")
    ELSE IF cmd = "update_matches"
        THEN (IF r = "list" THEN "updated"
              ELSE IF r = "failure" THEN "failed" ELSE "none")
    ELSE IF cmd = "update_rankings"
        THEN (IF r = "list" THEN "updated" ELSE "failed")
    ELSE "none"

\* The item's rows are written in the loop (save_matches, save_rankings).
WrittenInLoop(cmd, r) == r = "list" /\ cmd # "update_players"

\* The loop sleeps before this iteration's request.
SleepsBeforeFetch(cmd, i, fetchedSoFar) ==
    IF cmd = "update_players" THEN fetchedSoFar > 0 ELSE i > 0

\* Elapsed seconds, as far as the spacing of calls needs them.
Elapsed(t) == IF t < RateLimitDelay THEN t ELSE RateLimitDelay

CmdIdle ==
    /\ ccmd = "none" /\ ci = 0 /\ total_fetched = 0
    /\ updated_count = 0 /\ failed_count = 0 /\ coutcome = <<>>
    /\ cgap = 0 /\ ccalled = FALSE /\ clast_gap = RateLimitDelay

----------------------------------------------------------------------------
(* The activity detector: auto_live_monitor._has_active_matches *)

\* Times are minutes since midnight of day 0; dates are day numbers.
MinutesPerDay == 1440

\* datetime.date()
DateOf(t) == t \div MinutesPerDay

\* timedelta(minutes=-30) and timedelta(hours=4), in minutes.
WindowBefore == -30
WindowAfter == 240

\* The instants of day 1 at which the detector is called.
CheckTimes ==
    {MinutesPerDay + 5, MinutesPerDay + 120, MinutesPerDay + 720,
     MinutesPerDay + 1435}

\* Scheduled time minus now, in minutes.
ScheduleOffsets == {-300, -241, -240, -180, -10, 0, 10, 30, 31}

\* The events of the model, by StartDate and EndDate.
DetectEvents ==
    {[ID |-> 100, StartDate |-> 1, EndDate |-> 1],
     [ID |-> 100, StartDate |-> 0, EndDate |-> 2],
     [ID |-> 100, StartDate |-> 4, EndDate |-> 5]}

\* Status__in=[0, 1, 2]: Scheduled, Running, On Break.
MonitoredStatuses == {0, 1, 2}

\* The events the detector looks at: StartDate <= tomorrow and
\* EndDate >= yesterday.
active_tournaments(now, events) ==
    {ev \in events :
        /\ ev.StartDate <= DateOf(now) + 1
        /\ ev.EndDate >= DateOf(now) - 1}

\* The matches of an event scheduled today with a monitored status.
today_matches(now, ev, matches) ==
    {mt \in matches :
        /\ mt.Event = ev.ID
        /\ mt.ScheduledDate # None
        /\ DateOf(mt.ScheduledDate) = DateOf(now)
        /\ mt.Status \in MonitoredStatuses}

\* time_diff = current_time - match_time
time_diff(now, mt) == now - mt.ScheduledDate

\* _has_active_matches(current_time)
HasActiveMatches(now, events, matches) ==
    \E ev \in active_tournaments(now, events) :
        \E mt \in today_matches(now, ev, matches) :
            /\ WindowBefore <= time_diff(now, mt)
            /\ time_diff(now, mt) <= WindowAfter

DetectIdle ==
    /\ current_time = 0 /\ devents = {} /\ dmatches = {}
    /\ has_active_matches = FALSE /\ ddone = FALSE

----------------------------------------------------------------------------
(* Scenarios: consecutive reconciles of one key *)

\* The upstream snapshots of the scenarios: participants and status are
\* given, a score is a number or null.
ScenarioPayloads ==
    [Player1ID : {TBD, RealPair[1]},
     Player2ID : {TBD, RealPair[2]},
     Status    : {StatusUpcoming, StatusLive, StatusFinished},
     Score1    : Scores \cup {None},
     Score2    : Scores \cup {None}]

ScenIdle == scenStored = NoRecord /\ scenCalls = <<>> /\ scenOutcomes = <<>>

----------------------------------------------------------------------------
(* The four savers on one database: save_players and save_events, and the  *)
(* Match rows of several tournaments                                       *)

Savers == {"matches", "rankings", "players", "events"}

\* A stored tournament other than the one a match batch is for.
OtherEvent == 300

\* The elements of players_data and of events_data: a record whose ID
\* converts to an integer, or one the saver skips: not a dict, ID missing
\* or falsy, ID not an integer.
IdItems(ids) ==
    [kind : {"record"}, ID : ids]
    \cup [kind : {"notdict", "noid", "badid"}, ID : {None}]

IdBatches(ids) == UNION {[1..n -> IdItems(ids)] : n \in 0..MaxBatch}

\* The loop body of save_players and of save_events for the record at
\* position i, on acc = [rows, stats]; fail holds the positions whose
\* update_or_create_item returns no instance.
IdStep(acc, b, i, fail) ==
    LET it == b[i] IN
    IF it.kind # "record"
    THEN [acc EXCEPT !.stats = Tally(@, "skipped")]
    ELSE IF i \in fail
    THEN [acc EXCEPT !.stats = Tally(@, "failed")]
    ELSE [rows |-> acc.rows \cup {it.ID},
          stats |-> Tally(acc.stats,
                          IF it.ID \in acc.rows THEN "updated"
                          ELSE "created")]

RECURSIVE IdLoop(_, _, _, _)
IdLoop(acc, b, i, fail) ==
    IF i > Len(b) THEN acc
    ELSE IdLoop(IdStep(acc, b, i, fail), b, i + 1, fail)

\* save_players(b) on the ids of the Player rows.
SavePlayers(rows, b, fail) ==
    IF Len(b) = 0 THEN [rows |-> rows, stats |-> ZeroStats]
    ELSE IdLoop([rows |-> rows, stats |-> ZeroStats], b, 1, fail)

\* save_events(b) on the ids of the Event rows.
SaveEvents(rows, b, fail) ==
    IF Len(b) = 0 THEN [rows |-> rows, stats |-> ZeroStats]
    ELSE IdLoop([rows |-> rows, stats |-> ZeroStats], b, 1, fail)

\* MatchesOfAnEvent.objects.filter(Event=event): the rows of one event.
RowsOfEvent(m, ev) == IF ev \in DOMAIN m THEN m[ev] ELSE EmptyDb

\* A write that reaches the rows of every event.
WithRowsOfAnyEvent(m, ev, d) == [e \in DOMAIN m |-> d]

\* The Match rows after the writes of a call whose lookups carry
\* Event = ev left d for that event.
WithRowsOfEvent(m, ev, d) ==
    IF ev \in DOMAIN m THEN [m EXCEPT ![ev] = d] ELSE m

\* Stores of ranking entries with at most one row.
SmallRankStores == {{}} \cup {{r} : r \in RankRows}

\* The ID values of an upstream match record.
RawIds ==
    {Missing, PyNone, PyInt("0"), PyInt("7"), PyStr("7"), PyFloat("7.9"),
     PyStr("abc")}

\* prepare_model_data for the key ID of a match record, which
\* API_FIELD_MAPPINGS sends to the IntegerField api_match_id: Missing when
\* api_match_id is no key of the defaults.
MappedApiMatchId(id) ==
    IF id = Missing THEN Missing
    ELSE LET c == IF CleanInt(id).raised THEN PyNone ELSE CleanInt(id).value
         IN IF c # PyNone \/ id = PyNone THEN c ELSE Missing

\* if api_match_id: Python truth of match_data.get('ID')
Truthy(id) == id \notin {Missing, PyNone, PyInt("0"), PyStr("")}

\* defaults['api_match_id'] when save_matches hands the defaults to
\* update_or_create_item: int(ID) for a truthy ID, None when int() raises
\* ValueError or TypeError, else what the mapper left.
ApiMatchIdDefault(id) ==
    IF ~Truthy(id) THEN MappedApiMatchId(id)
    ELSE IF id.tag = "int" THEN id
    ELSE IF id \in {PyStr("7"), PyFloat("7.9")} THEN PyInt("7")
    ELSE PyNone

UpsIdle ==
    /\ qrow = NoRecord /\ qapi = PyNone /\ qid = Missing
    /\ qmapped = NoRecord /\ qmapped_api = Missing
    /\ qdefaults_api = Missing /\ qafter = NoRecord /\ qafter_api = PyNone
    /\ qoutcome = "none"

ConvIdle ==
    /\ cstored = NoRecord /\ cfinal = NoRecord /\ cserved = 0
    /\ clast = "none" /\ cskip = FALSE

SavIdle ==
    /\ vsaver = "matches" /\ vdone = FALSE /\ vbatch = <<>>
    /\ vevent = StoredEvent /\ vfault = "none" /\ vstats = ZeroStats
    /\ vmatch0 = <<>> /\ vmatch = <<>>
    /\ vtour0 = {} /\ vtour = {} /\ vplay0 = {} /\ vplay = {}
    /\ vrank = {}

----------------------------------------------------------------------------
(* Spec: one logical key, one writer *)

EndIdle ==
    /\ etoday = 0
    /\ eEndDate = [t \in Tournaments |-> 1]
    /\ efinished = {}
    /\ processed_tournament_ends = {}
    /\ end_runs = [t \in Tournaments |-> 0]

MapIdle ==
    /\ mcls = "Ranking" /\ mdata = <<>> /\ mout = <<>> /\ mfk = PyNone
    /\ mraised = FALSE /\ mdone = FALSE

AutoIdle ==
    /\ apc = [t \in Threads |-> "loop"]
    /\ ajob = "none"
    /\ aleft = [t \in Threads |-> 0]
    /\ ainflight = {}
    /\ alast = {}

UniqIdle ==
    /\ ucommitted = [k \in BatchKeys |-> 0]
    /\ upending = [w \in Writers |-> [k \in BatchKeys |-> 0]]
    /\ upc = [w \in Writers |-> "idle"]
    /\ ukey = [w \in Writers |-> 0]
    /\ un = [w \in Writers |-> 0]
    /\ uraced = [k \in BatchKeys |-> FALSE]

PairIdle ==
    /\ pairInit = NoRecord /\ pairA = NoRecord /\ pairB = NoRecord
    /\ pairAB = NoRecord /\ pairBA = NoRecord /\ pairDone = FALSE

GuardIdle == stored = NoRecord /\ stats = ZeroStats /\ wasFinal = FALSE

Init ==
    /\ UpsIdle
    /\ ConvIdle
    /\ SavIdle
    /\ EndIdle
    /\ MapIdle
    /\ OneIdle
    /\ AutoIdle
    /\ UniqIdle
    /\ CallIdle
    /\ ScenIdle
    /\ DetectIdle
    /\ CmdIdle
    /\ SchedIdle
    /\ WinnerIdle
    /\ GuardIdle /\ PairIdle /\ BatchIdle /\ ConcIdle /\ IdemIdle
    /\ DedupIdle /\ RankIdle

\* save_matches(event, [d]) where the storage layer works.
SaveMatch ==
    \E d \in Payloads :
        /\ stored' = Reconcile(stored, d)
        /\ stats' = Tally(ZeroStats, Outcome(stored, d))
        /\ wasFinal' = (wasFinal \/ IsFinalRecord(stored'))
        /\ UNCHANGED exceptGuard

\* save_matches(event, [d]) where update_or_create raises: the error is
\* caught in update_or_create_item and the candidate is tallied failed.
SaveMatchStorageError ==
    \E d \in Payloads :
        /\ ~(stored # NoRecord /\ ShouldSkipMatchUpdate(stored, d))
        /\ stats' = Tally(ZeroStats, "failed")
        /\ UNCHANGED <<stored, wasFinal>>
        /\ UNCHANGED exceptGuard

Next == SaveMatch \/ SaveMatchStorageError

Spec == Init /\ [][Next]_vars

----------------------------------------------------------------------------
(* SpecGuard: one call of _should_skip_match_update on any stored row and  *)
(* any candidate                                                           *)

InitGuard ==
    /\ UpsIdle
    /\ ConvIdle
    /\ SavIdle
    /\ EndIdle
    /\ MapIdle
    /\ OneIdle
    /\ AutoIdle
    /\ UniqIdle
    /\ ScenIdle
    /\ DetectIdle
    /\ CmdIdle
    /\ SchedIdle
    /\ WinnerIdle
    /\ GuardIdle /\ PairIdle /\ BatchIdle /\ ConcIdle /\ IdemIdle
    /\ DedupIdle /\ RankIdle
    /\ existing_match \in Records
    /\ new_defaults = NoRecord
    /\ should_skip = "none"

\* _should_skip_match_update(existing_match, new_defaults, api_match_id)
ShouldSkipCall ==
    /\ should_skip = "none"
    /\ \E d \in Payloads :
        /\ new_defaults' = d
        /\ should_skip' =
            IF ShouldSkipMatchUpdate(existing_match, d) THEN "skip"
            ELSE "proceed"
    /\ UNCHANGED existing_match
    /\ UNCHANGED exceptCall

NextGuard == ShouldSkipCall

SpecGuard == InitGuard /\ [][NextGuard]_vars

----------------------------------------------------------------------------
(* SpecPair: two candidates for one key, reconciled in both orders *)

\* The rows complete snapshots leave behind.
CompleteRecords == CompletePayloads

InitPair ==
    /\ UpsIdle
    /\ ConvIdle
    /\ SavIdle
    /\ EndIdle
    /\ MapIdle
    /\ OneIdle
    /\ AutoIdle
    /\ UniqIdle
    /\ CallIdle
    /\ ScenIdle
    /\ DetectIdle
    /\ CmdIdle
    /\ SchedIdle
    /\ WinnerIdle
    /\ GuardIdle /\ BatchIdle /\ ConcIdle /\ IdemIdle
    /\ DedupIdle /\ RankIdle
    /\ pairInit \in CompleteRecords \cup {NoRecord}
    /\ pairA \in CompletePayloads
    /\ pairB \in CompletePayloads
    /\ pairAB = NoRecord /\ pairBA = NoRecord /\ pairDone = FALSE

\* save_matches(event, [A]) then save_matches(event, [B]), and the same two
\* calls in the other order, both from the row pairInit.
ReconcilePair ==
    /\ ~pairDone
    /\ pairAB' = Reconcile(Reconcile(pairInit, pairA), pairB)
    /\ pairBA' = Reconcile(Reconcile(pairInit, pairB), pairA)
    /\ pairDone' = TRUE
    /\ UNCHANGED <<pairInit, pairA, pairB>>
    /\ UNCHANGED exceptPair

NextPair == ReconcilePair

SpecPair == InitPair /\ [][NextPair]_vars

----------------------------------------------------------------------------
(* SpecBatch: whole batches for one event, one writer *)

InitBatch ==
    /\ UpsIdle
    /\ ConvIdle
    /\ SavIdle
    /\ EndIdle
    /\ MapIdle
    /\ OneIdle
    /\ AutoIdle
    /\ UniqIdle
    /\ CallIdle
    /\ ScenIdle
    /\ DetectIdle
    /\ CmdIdle
    /\ SchedIdle
    /\ WinnerIdle
    /\ GuardIdle /\ PairIdle /\ BatchIdle /\ ConcIdle /\ IdemIdle
    /\ DedupIdle /\ RankIdle

\* One call of save_matches.
SaveMatchesCall ==
    \E b \in Batches, ev \in {StoredEvent, UnknownEvent} :
        \E fault \in BatchFaults(b) :
            LET r == SaveMatches(db, ev, b, fault) IN
            /\ db' = r.db
            /\ bstats' = r.stats
            /\ bfault' = r.fault
            /\ UNCHANGED exceptBatch

NextBatch == SaveMatchesCall

SpecBatch == InitBatch /\ [][NextBatch]_vars

----------------------------------------------------------------------------
(* SpecOneCall: one call of save_matches, on any store of snapshots, with  *)
(* the batch, the event and the storage error of the call recorded.        *)

InitOneCall ==
    /\ UpsIdle
    /\ ConvIdle
    /\ SavIdle
    /\ EndIdle
    /\ MapIdle
    /\ AutoIdle
    /\ UniqIdle
    /\ CallIdle
    /\ ScenIdle
    /\ DetectIdle
    /\ CmdIdle
    /\ SchedIdle
    /\ WinnerIdle
    /\ GuardIdle /\ PairIdle /\ BatchIdle /\ ConcIdle /\ IdemIdle
    /\ DedupIdle /\ RankIdle
    /\ odb \in SnapshotStores
    /\ onew = odb /\ ostats = ZeroStats
    /\ ofault = "none" /\ obatch = <<>> /\ oevent = StoredEvent
    /\ ofaultin = NoFault /\ odone = FALSE

\* The call of save_matches.
OneSaveMatchesCall ==
    /\ ~odone
    /\ \E b \in Batches, ev \in {StoredEvent, UnknownEvent} :
        \E fault \in BatchFaults(b) :
            LET r == SaveMatches(odb, ev, b, fault) IN
            /\ onew' = r.db
            /\ ostats' = r.stats
            /\ ofault' = r.fault
            /\ obatch' = b /\ oevent' = ev /\ ofaultin' = fault
    /\ odone' = TRUE
    /\ UNCHANGED odb
    /\ UNCHANGED exceptOne

NextOneCall == OneSaveMatchesCall

SpecOneCall == InitOneCall /\ [][NextOneCall]_vars

----------------------------------------------------------------------------
(* SpecSavers: one call of one saver on a database that holds the Match    *)
(* rows of two tournaments, the Event rows, the Player rows and the        *)
(* Ranking rows.                                                           *)

\* The Match rows the call starts from: any snapshots for the event of the
\* batch, none or the results for the other tournament.
MatchTables ==
    {[e \in {StoredEvent, OtherEvent} |->
        IF e = StoredEvent THEN d ELSE o] :
     d \in SnapshotStores,
     o \in {EmptyDb, [k \in BatchKeys |->
                         UpdateOrCreate(NoRecord, FinalSnapshot)]}}

InitSavers ==
    /\ UpsIdle
    /\ ConvIdle
    /\ EndIdle
    /\ MapIdle
    /\ OneIdle
    /\ AutoIdle
    /\ UniqIdle
    /\ CallIdle
    /\ ScenIdle
    /\ DetectIdle
    /\ CmdIdle
    /\ SchedIdle
    /\ WinnerIdle
    /\ GuardIdle /\ PairIdle /\ BatchIdle /\ ConcIdle /\ IdemIdle
    /\ DedupIdle /\ RankIdle
    /\ vsaver \in Savers
    /\ vdone = FALSE /\ vbatch = <<>> /\ vevent = StoredEvent
    /\ vfault = "none" /\ vstats = ZeroStats
    /\ vmatch0 \in MatchTables
    /\ vsaver # "matches" =>
           vmatch0 = [e \in {StoredEvent, OtherEvent} |-> EmptyDb]
    /\ vmatch = vmatch0
    /\ vtour0 = {StoredEvent, OtherEvent} /\ vtour = vtour0
    /\ vplay0 = StoredPlayers /\ vplay = vplay0
    /\ vrank \in SmallRankStores
    /\ vsaver # "rankings" => vrank = {}

\* save_matches(event_id, matches_data)
SaversSaveMatches ==
    /\ vsaver = "matches" /\ ~vdone
    /\ \E b \in Batches, ev \in {StoredEvent, UnknownEvent} :
        \E fault \in BatchFaults(b) :
            LET r == SaveMatches(RowsOfEvent(vmatch, ev), ev, b, fault) IN
            /\ vmatch' = WithRowsOfEvent(vmatch, ev, r.db)
            /\ vstats' = r.stats
            /\ vfault' = r.fault
            /\ vbatch' = b /\ vevent' = ev
    /\ vdone' = TRUE
    /\ UNCHANGED <<vsaver, vmatch0, vtour0, vtour, vplay0, vplay, vrank>>
    /\ UNCHANGED exceptSav

\* save_rankings(rankings_data)
SaversSaveRankings ==
    /\ vsaver = "rankings" /\ ~vdone
    /\ \E b \in RankBatches :
        LET r == SaveRankings(vrank, b) IN
        /\ vrank' = r.rows
        /\ vstats' = r.stats
        /\ vbatch' = b
    /\ vdone' = TRUE
    /\ UNCHANGED <<vsaver, vevent, vfault, vmatch0, vmatch, vtour0, vtour,
                   vplay0, vplay>>
    /\ UNCHANGED exceptSav

\* save_players(players_data)
SaversSavePlayers ==
    /\ vsaver = "players" /\ ~vdone
    /\ \E b \in IdBatches({PlayerIds[1], PlayerIds[2]}) :
        \E fail \in SUBSET (1..Len(b)) :
            LET r == SavePlayers(vplay, b, fail) IN
            /\ vplay' = r.rows
            /\ vstats' = r.stats
            /\ vbatch' = b
            /\ vfault' = IF fail = {} THEN "none" ELSE "write"
    /\ vdone' = TRUE
    /\ UNCHANGED <<vsaver, vevent, vmatch0, vmatch, vtour0, vtour, vplay0,
                   vrank>>
    /\ UNCHANGED exceptSav

\* save_events(events_data)
SaversSaveEvents ==
    /\ vsaver = "events" /\ ~vdone
    /\ \E b \in IdBatches({StoredEvent, UnknownEvent}) :
        \E fail \in SUBSET (1..Len(b)) :
            LET r == SaveEvents(vtour, b, fail) IN
            /\ vtour' = r.rows
            /\ vstats' = r.stats
            /\ vbatch' = b
            /\ vfault' = IF fail = {} THEN "none" ELSE "write"
    /\ vdone' = TRUE
    /\ UNCHANGED <<vsaver, vevent, vmatch0, vmatch, vtour0, vplay0, vplay,
                   vrank>>
    /\ UNCHANGED exceptSav

NextSavers ==
    \/ SaversSaveMatches
    \/ SaversSaveRankings
    \/ SaversSavePlayers
    \/ SaversSaveEvents

SpecSavers == InitSavers /\ [][NextSavers]_vars

\* created + updated + skipped + failed of a tally
TallyTotal(s) == s.created + s.updated + s.skipped + s.failed

\* C36: the tally a saver returns accounts for every record of its list:
\* after any call of save_matches, save_rankings, save_players or
\* save_events, created + updated + skipped + failed is the length of the
\* list, also when the tournament is not stored and when the transaction
\* of the batch fails.
C36_TallyAccountsForEveryRecord ==
    vdone => TallyTotal(vstats) = Len(vbatch)

\* A batch of matches whose transaction failed after a record was skipped.
C36_Witness ==
    /\ vdone /\ vsaver = "matches" /\ vfault = "read"
    /\ vstats.skipped > 0 /\ vstats.failed > 0

\* The match numbers of the records of a batch that save_matches can key.
KeysOfBatch(b) == {b[i].key : i \in {j \in DOMAIN b : b[j].kind = "match"}}

\* C38: save_matches(E, batch) creates or modifies only Match rows of
\* event E whose (Round, Number) occurs in the batch: it deletes no Match
\* row, leaves the rows of other tournaments and of other keys of E as
\* they were, and leaves the Event and Player rows as they were; a batch
\* for a tournament that is not stored changes nothing.
C38_FrameOfMatchBatch ==
    (vdone /\ vsaver = "matches") =>
        /\ vtour = vtour0 /\ vplay = vplay0
        /\ DOMAIN vmatch = DOMAIN vmatch0
        /\ \A e \in DOMAIN vmatch0 : \A k \in BatchKeys :
              /\ vmatch0[e][k] # NoRecord => vmatch[e][k] # NoRecord
              /\ vmatch[e][k] # vmatch0[e][k] =>
                    (e = vevent /\ k \in KeysOfBatch(vbatch))
        /\ vevent \notin vtour0 => vmatch = vmatch0

\* A batch that wrote a row of its event while the other tournament and
\* another key of the event held rows.
C38_Witness ==
    /\ vdone /\ vsaver = "matches" /\ vevent = StoredEvent
    /\ vmatch[StoredEvent] # vmatch0[StoredEvent]
    /\ \E k \in BatchKeys :
          /\ k \notin KeysOfBatch(vbatch)
          /\ vmatch0[StoredEvent][k] # NoRecord
          /\ vmatch0[OtherEvent][k] # NoRecord

----------------------------------------------------------------------------
(* SpecConverge: the row of one key while upstream serves the final record *)
(* of the match, with at most MaxStale stale snapshots in between.         *)

\* Stale snapshots upstream may still serve.
MaxStale == 2

\* Two real participants, Status Finished and at least one non-zero score;
\* the other score may be 0, null or not a key of the defaults.
FinalCandidates ==
    {d \in Payloads :
        /\ d.Player1ID = RealPair[1] /\ d.Player2ID = RealPair[2]
        /\ d.Status = StatusFinished
        /\ (d.Score1 \in Scores /\ d.Score1 > 0)
              \/ (d.Score2 \in Scores /\ d.Score2 > 0)}

\* The stale snapshots: complete records of the match before its end, as
\* a draw placeholder or with its two players.
StaleSnapshots ==
    {d \in CompletePayloads :
        /\ d.Status # StatusFinished
        /\ (d.Player1ID = TBD) = (d.Player2ID = TBD)}

\* A final candidate with both scores present.
BothScoresPresent(d) == d.Score1 \in Scores /\ d.Score2 \in Scores

InitConverge ==
    /\ UpsIdle
    /\ SavIdle
    /\ EndIdle
    /\ MapIdle
    /\ OneIdle
    /\ AutoIdle
    /\ UniqIdle
    /\ CallIdle
    /\ ScenIdle
    /\ DetectIdle
    /\ CmdIdle
    /\ SchedIdle
    /\ WinnerIdle
    /\ GuardIdle /\ PairIdle /\ BatchIdle /\ ConcIdle /\ IdemIdle
    /\ DedupIdle /\ RankIdle
    /\ cstored \in Records \cup {NoRecord}
    /\ cfinal \in FinalCandidates
    /\ cserved = 0 /\ clast = "none" /\ cskip = FALSE

\* save_matches(event, [d]) with a stale snapshot d of the match.
ServeStale ==
    /\ cserved < MaxStale
    /\ \E d \in StaleSnapshots :
        /\ cskip' = (cstored # NoRecord /\ ShouldSkipMatchUpdate(cstored, d))
        /\ cstored' = Reconcile(cstored, d)
    /\ cserved' = cserved + 1
    /\ clast' = "stale"
    /\ UNCHANGED cfinal
    /\ UNCHANGED exceptConv

\* save_matches(event, [cfinal])
ServeFinal ==
    /\ cskip' = (cstored # NoRecord /\ ShouldSkipMatchUpdate(cstored, cfinal))
    /\ cstored' = Reconcile(cstored, cfinal)
    /\ clast' = "final"
    /\ UNCHANGED <<cfinal, cserved>>
    /\ UNCHANGED exceptConv

\* save_matches(event, [cfinal]) where update_or_create raises: the
\* candidate is tallied failed and the row stays.
ServeFinalStorageError ==
    /\ ~(cstored # NoRecord /\ ShouldSkipMatchUpdate(cstored, cfinal))
    /\ clast' = "failed"
    /\ cskip' = FALSE
    /\ UNCHANGED <<cstored, cfinal, cserved>>
    /\ UNCHANGED exceptConv

NextConverge == ServeStale \/ ServeFinal \/ ServeFinalStorageError

SpecConverge == InitConverge /\ [][NextConverge]_vars

\* The final record keeps being applied, and a write of it that changes
\* the row eventually goes through.
SpecConvergeLive == SpecConverge /\ WF_vars(ServeFinal)

----------------------------------------------------------------------------
(* SpecUpsert: one upstream record of a save_matches batch whose key holds *)
(* a row, from the defaults of the mapper to the row update_or_create      *)
(* leaves.                                                                 *)

InitUpsert ==
    /\ ConvIdle
    /\ SavIdle
    /\ EndIdle
    /\ MapIdle
    /\ OneIdle
    /\ AutoIdle
    /\ UniqIdle
    /\ CallIdle
    /\ ScenIdle
    /\ DetectIdle
    /\ CmdIdle
    /\ SchedIdle
    /\ WinnerIdle
    /\ GuardIdle /\ PairIdle /\ BatchIdle /\ ConcIdle /\ IdemIdle
    /\ DedupIdle /\ RankIdle
    /\ qrow \in {UpdateOrCreate(NoRecord, d) : d \in BatchPayloads}
    /\ qapi \in {PyNone, PyInt("8")}
    /\ qid = Missing /\ qmapped = NoRecord /\ qmapped_api = Missing
    /\ qdefaults_api = Missing
    /\ qafter = qrow /\ qafter_api = qapi
    /\ qoutcome = "none"

\* Lines 289-321 of save_matches for one record with its Round and Number:
\* the mapper, api_match_id, the guard, update_or_create_item.
UpsertRecord ==
    /\ qoutcome = "none"
    /\ \E d \in Payloads, id \in RawIds :
        /\ qid' = id
        /\ qmapped' = d
        /\ qmapped_api' = MappedApiMatchId(id)
        /\ qdefaults_api' = ApiMatchIdDefault(id)
        /\ IF ShouldSkipMatchUpdate(qrow, d)
           THEN /\ qoutcome' = "skipped"
                /\ UNCHANGED <<qafter, qafter_api>>
           ELSE /\ qoutcome' = "updated"
                /\ qafter' = UpdateOrCreate(qrow, d)
                /\ qafter_api' =
                      IF ApiMatchIdDefault(id) # Missing
                      THEN ApiMatchIdDefault(id) ELSE qapi
    /\ UNCHANGED <<qrow, qapi>>
    /\ UNCHANGED exceptUps

NextUpsert == UpsertRecord

SpecUpsert == InitUpsert /\ [][NextUpsert]_vars

\* C39: when a candidate that is not skipped updates an existing Match,
\* every stored field that is no key of the candidate payload (absent from
\* the upstream record, or dropped by the mapper as unconvertible) keeps
\* its stored value, and only fields of the payload are overwritten.
C39_AbsentFieldsKept ==
    qoutcome = "updated" =>
        /\ \A f \in Fields : qmapped[f] = Absent => qafter[f] = qrow[f]
        /\ qmapped_api = Missing => qafter_api = qapi

----------------------------------------------------------------------------
(* SpecMapper: one call of prepare_model_data on any raw record *)

InitMapper ==
    /\ UpsIdle
    /\ ConvIdle
    /\ SavIdle
    /\ EndIdle
    /\ OneIdle
    /\ AutoIdle
    /\ UniqIdle
    /\ CallIdle
    /\ ScenIdle
    /\ DetectIdle
    /\ CmdIdle
    /\ SchedIdle
    /\ WinnerIdle
    /\ GuardIdle /\ PairIdle /\ BatchIdle /\ ConcIdle /\ IdemIdle
    /\ DedupIdle /\ RankIdle
    /\ mcls \in ModelClasses
    /\ mdata \in [ApiKeys(mcls) -> RawValues \cup {Missing}]
    /\ mout = <<>> /\ mfk = PyNone
    /\ mraised = FALSE /\ mdone = FALSE

\* prepare_data_for_model(model_class, api_data)
PrepareCall ==
    /\ ~mdone
    /\ LET r == PrepareModelData(mcls, mdata) IN
       /\ mout' = r.defaults
       /\ mfk' = r.fk
       /\ mraised' = r.raised
    /\ mdone' = TRUE
    /\ UNCHANGED <<mcls, mdata>>
    /\ UNCHANGED exceptMap

NextMapper == PrepareCall

SpecMapper == InitMapper /\ [][NextMapper]_vars

----------------------------------------------------------------------------
(* SpecTourEnd: one run of auto_live_monitor, day after day, and the       *)
(* tournament-end updates of its quiescent ticks.  The EndDate of a stored *)
(* tournament does not change during the run.                              *)

InitTourEnd ==
    /\ UpsIdle
    /\ ConvIdle
    /\ SavIdle
    /\ MapIdle
    /\ OneIdle
    /\ AutoIdle
    /\ UniqIdle
    /\ CallIdle
    /\ ScenIdle
    /\ DetectIdle
    /\ CmdIdle
    /\ SchedIdle
    /\ WinnerIdle
    /\ GuardIdle /\ PairIdle /\ BatchIdle /\ ConcIdle /\ IdemIdle
    /\ DedupIdle /\ RankIdle
    /\ etoday = 0
    /\ eEndDate \in [Tournaments -> EndDays]
    /\ efinished = {}
    /\ processed_tournament_ends = {}
    /\ end_runs = [t \in Tournaments |-> 0]

\* _check_tournament_end_updates on a quiescent tick: the processed set is
\* cleaned, and _run_tournament_end_updates runs the rankings and players
\* refresh for every recently ended tournament that is not in the set and
\* has a Finished match, and adds its ID to the set.
CheckTournamentEndUpdates ==
    LET kept == processed_tournament_ends
                  \ OldTournaments(etoday, eEndDate,
                                    processed_tournament_ends)
        needing == (RecentlyEnded(etoday, eEndDate) \ kept) \cap efinished
    IN /\ processed_tournament_ends' = kept \cup needing
       /\ end_runs' = [t \in Tournaments |->
                          IF t \in needing THEN end_runs[t] + 1
                          ELSE end_runs[t]]
       /\ UNCHANGED <<etoday, eEndDate, efinished>>
       /\ UNCHANGED exceptEnd

\* Time passes between two checks: the sleep of a quiescent tick, or a
\* stretch of active ticks, which do not run the check.
DaysPass ==
    /\ etoday < MaxDay
    /\ \E d \in 1..3 : etoday' = IF etoday + d > MaxDay THEN MaxDay
                                   ELSE etoday + d
    /\ UNCHANGED <<eEndDate, efinished, processed_tournament_ends, end_runs>>
    /\ UNCHANGED exceptEnd

\* A match of the tournament is stored as Finished.
MatchFinishes ==
    /\ \E t \in Tournaments \ efinished : efinished' = efinished \cup {t}
    /\ UNCHANGED <<etoday, eEndDate, processed_tournament_ends, end_runs>>
    /\ UNCHANGED exceptEnd

NextTourEnd == CheckTournamentEndUpdates \/ DaysPass \/ MatchFinishes

SpecTourEnd == InitTourEnd /\ [][NextTourEnd]_vars

----------------------------------------------------------------------------
(* SpecConc: two writers, one key.  Each save_matches call runs in its own *)
(* transaction; the read of the existing row (line 312) takes no lock, the *)
(* write of update_or_create waits for the row lock of an uncommitted      *)
(* write and then works on the latest committed row.                       *)

InitConc ==
    /\ UpsIdle
    /\ ConvIdle
    /\ SavIdle
    /\ EndIdle
    /\ MapIdle
    /\ OneIdle
    /\ AutoIdle
    /\ UniqIdle
    /\ CallIdle
    /\ ScenIdle
    /\ DetectIdle
    /\ CmdIdle
    /\ SchedIdle
    /\ WinnerIdle
    /\ GuardIdle /\ PairIdle /\ BatchIdle /\ ConcIdle /\ IdemIdle
    /\ DedupIdle /\ RankIdle

\* The row a writer's statements see: its own write, else the committed row.
View(w) == IF wrow[w] # NoRecord THEN wrow[w] ELSE cdb

\* with transaction.atomic(): a call with a non-empty batch starts.
Begin(w) ==
    /\ wpc[w] = "idle"
    /\ wpc' = [wpc EXCEPT ![w] = "open"]
    /\ wn' = [wn EXCEPT ![w] = 0]
    /\ UNCHANGED <<cdb, wcur, wrow>>
    /\ UNCHANGED exceptConc

\* Lines 312-315: read the existing row and take the guard decision for
\* the next record d of the batch.
ReadAndGuard(w) ==
    \E d \in BatchPayloads :
        /\ wpc[w] = "open"
        /\ wn[w] < MaxBatch
        /\ IF View(w) # NoRecord /\ ShouldSkipMatchUpdate(View(w), d)
           THEN /\ wn' = [wn EXCEPT ![w] = @ + 1]
                /\ UNCHANGED <<wpc, wcur>>
           ELSE /\ wpc' = [wpc EXCEPT ![w] = "decided"]
                /\ wcur' = [wcur EXCEPT ![w] = d]
                /\ UNCHANGED wn
        /\ UNCHANGED <<cdb, wrow>>
        /\ UNCHANGED exceptConc

\* Lines 317-319: update_or_create writes the decided candidate; it waits
\* while another transaction holds an uncommitted write of the row.
Write(w) ==
    /\ wpc[w] = "decided"
    /\ \A o \in Writers \ {w} : wrow[o] = NoRecord
    /\ wrow' = [wrow EXCEPT ![w] = UpdateOrCreate(View(w), wcur[w])]
    /\ wpc' = [wpc EXCEPT ![w] = "open"]
    /\ wn' = [wn EXCEPT ![w] = @ + 1]
    /\ wcur' = [wcur EXCEPT ![w] = NoRecord]
    /\ UNCHANGED cdb
    /\ UNCHANGED exceptConc

\* Lines 64-69: the write raises (lock timeout, integrity error); the
\* error is caught and the record is tallied failed.
WriteFails(w) ==
    /\ wpc[w] = "decided"
    /\ wpc' = [wpc EXCEPT ![w] = "open"]
    /\ wn' = [wn EXCEPT ![w] = @ + 1]
    /\ wcur' = [wcur EXCEPT ![w] = NoRecord]
    /\ UNCHANGED <<cdb, wrow>>
    /\ UNCHANGED exceptConc

\* The atomic block ends after the last record: the writes are committed.
Commit(w) ==
    /\ wpc[w] = "open"
    /\ wn[w] >= 1
    /\ cdb' = View(w)
    /\ wpc' = [wpc EXCEPT ![w] = "idle"]
    /\ wrow' = [wrow EXCEPT ![w] = NoRecord]
    /\ wn' = [wn EXCEPT ![w] = 0]
    /\ UNCHANGED wcur
    /\ UNCHANGED exceptConc

\* Lines 323-327: the read of the existing row raises; the transaction is
\* rolled back.
Abort(w) ==
    /\ wpc[w] = "open"
    /\ wn[w] < MaxBatch
    /\ wpc' = [wpc EXCEPT ![w] = "idle"]
    /\ wrow' = [wrow EXCEPT ![w] = NoRecord]
    /\ wn' = [wn EXCEPT ![w] = 0]
    /\ UNCHANGED <<cdb, wcur>>
    /\ UNCHANGED exceptConc

NextConc ==
    \E w \in Writers :
        \/ Begin(w)
        \/ ReadAndGuard(w)
        \/ Write(w)
        \/ WriteFails(w)
        \/ Commit(w)
        \/ Abort(w)

SpecConc == InitConc /\ [][NextConc]_vars

----------------------------------------------------------------------------
(* SpecUnique: two writers and the rows they create.  Each save_matches    *)
(* call runs in its own transaction and looks a key up before it creates   *)
(* a row; unique_together = ('Event', 'Round', 'Number') is a unique index  *)
(* of the table, checked by the store when a row is inserted.              *)

InitUnique ==
    /\ UpsIdle
    /\ ConvIdle
    /\ SavIdle
    /\ EndIdle
    /\ MapIdle
    /\ OneIdle
    /\ AutoIdle
    /\ CallIdle
    /\ ScenIdle
    /\ DetectIdle
    /\ CmdIdle
    /\ SchedIdle
    /\ WinnerIdle
    /\ GuardIdle /\ PairIdle /\ BatchIdle /\ ConcIdle /\ IdemIdle
    /\ DedupIdle /\ RankIdle
    /\ ucommitted \in [BatchKeys -> {0, 1}]
    /\ upending = [w \in Writers |-> [k \in BatchKeys |-> 0]]
    /\ upc = [w \in Writers |-> "idle"]
    /\ ukey = [w \in Writers |-> 0]
    /\ un = [w \in Writers |-> 0]
    /\ uraced = [k \in BatchKeys |-> FALSE]

\* The rows of key k the statements of writer w see: the committed ones
\* and its own uncommitted insert.
Visible(w, k) == ucommitted[k] + upending[w][k]

\* with transaction.atomic(): a call with a non-empty batch starts.
BeginSave(w) ==
    /\ upc[w] = "idle"
    /\ upc' = [upc EXCEPT ![w] = "open"]
    /\ un' = [un EXCEPT ![w] = 0]
    /\ UNCHANGED <<ucommitted, upending, ukey, uraced>>
    /\ UNCHANGED exceptUniq

\* Lines 312-315: the lookup of the existing row for the next record. A
\* row that exists is kept by the guard or goes to update_or_create, which
\* updates it; with no row the record goes to update_or_create_item.
LookupExisting(w) ==
    /\ upc[w] = "open"
    /\ un[w] < MaxBatch
    /\ \E k \in BatchKeys :
        IF Visible(w, k) > 0
        THEN /\ un' = [un EXCEPT ![w] = @ + 1]
             /\ UNCHANGED <<upc, ukey>>
        ELSE /\ upc' = [upc EXCEPT ![w] = "absent"]
             /\ ukey' = [ukey EXCEPT ![w] = k]
             /\ UNCHANGED un
    /\ UNCHANGED <<ucommitted, upending, uraced>>
    /\ UNCHANGED exceptUniq

\* update_or_create_item, lines 41-57: the pre-fetch and the get of
\* update_or_create. A row another writer has committed since the lookup
\* is found and updated; with no row update_or_create goes on to create.
GetBeforeCreate(w) ==
    /\ upc[w] = "absent"
    /\ IF Visible(w, ukey[w]) > 0
       THEN /\ upc' = [upc EXCEPT ![w] = "open"]
            /\ un' = [un EXCEPT ![w] = @ + 1]
            /\ ukey' = [ukey EXCEPT ![w] = 0]
            /\ UNCHANGED uraced
       ELSE /\ upc' = [upc EXCEPT ![w] = "create"]
            /\ uraced' =
                [uraced EXCEPT ![ukey[w]] =
                    @ \/ \E o \in Writers \ {w} :
                            upc[o] = "create" /\ ukey[o] = ukey[w]]
            /\ UNCHANGED <<un, ukey>>
    /\ UNCHANGED <<ucommitted, upending>>
    /\ UNCHANGED exceptUniq

\* An insert that no index checks.
InsertUnchecked(w, k) == "inserted"

\* The INSERT of a row of key k by writer w against the unique index of
\* (Event, Round, Number): it waits while another transaction holds an
\* uncommitted row of the key, fails on a committed one, and else succeeds.
InsertOutcome(w, k) ==
    IF \E o \in Writers \ {w} : upending[o][k] > 0 THEN "waits"
    ELSE IF ucommitted[k] > 0 THEN "conflict"
    ELSE "inserted"

\* update_or_create creates the row. On a conflict with the unique index
\* get_or_create catches the IntegrityError, gets the committed row, and
\* update_or_create updates it: no row is added.
CreateRow(w) ==
    /\ upc[w] = "create"
    /\ InsertOutcome(w, ukey[w]) # "waits"
    /\ upending' =
        IF InsertOutcome(w, ukey[w]) = "inserted"
        THEN [upending EXCEPT ![w][ukey[w]] = @ + 1]
        ELSE upending
    /\ upc' = [upc EXCEPT ![w] = "open"]
    /\ un' = [un EXCEPT ![w] = @ + 1]
    /\ ukey' = [ukey EXCEPT ![w] = 0]
    /\ UNCHANGED <<ucommitted, uraced>>
    /\ UNCHANGED exceptUniq

\* Lines 64-69: update_or_create raises (lock timeout, deadlock); the error
\* is caught and the record is tallied failed.
CreateFails(w) ==
    /\ upc[w] = "create"
    /\ upc' = [upc EXCEPT ![w] = "open"]
    /\ un' = [un EXCEPT ![w] = @ + 1]
    /\ ukey' = [ukey EXCEPT ![w] = 0]
    /\ UNCHANGED <<ucommitted, upending, uraced>>
    /\ UNCHANGED exceptUniq

\* The atomic block ends: the inserts of the transaction are committed.
CommitSave(w) ==
    /\ upc[w] = "open"
    /\ un[w] >= 1
    /\ ucommitted' = [k \in BatchKeys |-> ucommitted[k] + upending[w][k]]
    /\ upending' = [upending EXCEPT ![w] = [k \in BatchKeys |-> 0]]
    /\ upc' = [upc EXCEPT ![w] = "idle"]
    /\ un' = [un EXCEPT ![w] = 0]
    /\ UNCHANGED <<ukey, uraced>>
    /\ UNCHANGED exceptUniq

\* Lines 322-326: an exception leaves the atomic block; the transaction is
\* rolled back.
AbortSave(w) ==
    /\ upc[w] = "open"
    /\ un[w] < MaxBatch
    /\ upending' = [upending EXCEPT ![w] = [k \in BatchKeys |-> 0]]
    /\ upc' = [upc EXCEPT ![w] = "idle"]
    /\ un' = [un EXCEPT ![w] = 0]
    /\ UNCHANGED <<ucommitted, ukey, uraced>>
    /\ UNCHANGED exceptUniq

NextUnique ==
    \E w \in Writers :
        \/ BeginSave(w)
        \/ LookupExisting(w)
        \/ GetBeforeCreate(w)
        \/ CreateRow(w)
        \/ CreateFails(w)
        \/ CommitSave(w)
        \/ AbortSave(w)

SpecUnique == InitUnique /\ [][NextUnique]_vars

----------------------------------------------------------------------------
(* SpecAuto: the periodic-jobs thread and the live-monitoring thread of    *)
(* comprehensive_automation --mode full, and the upstream requests of the  *)
(* commands they call.                                                     *)

InitAuto ==
    /\ UpsIdle
    /\ ConvIdle
    /\ SavIdle
    /\ EndIdle
    /\ MapIdle
    /\ OneIdle
    /\ UniqIdle
    /\ CallIdle
    /\ ScenIdle
    /\ DetectIdle
    /\ CmdIdle
    /\ SchedIdle
    /\ WinnerIdle
    /\ GuardIdle /\ PairIdle /\ BatchIdle /\ ConcIdle /\ IdemIdle
    /\ DedupIdle /\ RankIdle
    /\ AutoIdle

\* _run_scheduler, lines 89-108: the first periodic job that is due and
\* has not run today starts; with none due the thread sleeps.
JobsCheck ==
    /\ apc["jobs"] = "loop"
    /\ \/ \E j \in Jobs \ alast :
            /\ ajob' = j
            /\ aleft' = [aleft EXCEPT !["jobs"] = Len(JobCommands[j])]
            /\ apc' = [apc EXCEPT !["jobs"] = "command"]
       \/ /\ apc' = [apc EXCEPT !["jobs"] = "sleep"]
          /\ UNCHANGED <<ajob, aleft>>
    /\ UNCHANGED <<ainflight, alast>>
    /\ UNCHANGED exceptAuto

\* call_command of the next command of the job: its request to the
\* upstream API goes out.
JobsCall ==
    /\ apc["jobs"] = "command"
    /\ apc' = [apc EXCEPT !["jobs"] = "request"]
    /\ ainflight' = ainflight \cup {"jobs"}
    /\ UNCHANGED <<ajob, aleft, alast>>
    /\ UNCHANGED exceptAuto

\* The response arrives and the command returns; after the last command
\* the job is recorded in last_*_run and the thread sleeps.
JobsReturn ==
    /\ apc["jobs"] = "request"
    /\ ainflight' = ainflight \ {"jobs"}
    /\ aleft' = [aleft EXCEPT !["jobs"] = @ - 1]
    /\ IF aleft["jobs"] = 1
       THEN /\ alast' = alast \cup {ajob}
            /\ ajob' = "none"
            /\ apc' = [apc EXCEPT !["jobs"] = "loop"]
       ELSE /\ apc' = [apc EXCEPT !["jobs"] = "command"]
            /\ UNCHANGED <<alast, ajob>>
    /\ UNCHANGED exceptAuto

\* A command raises: the job's except clause ends the job, which is still
\* recorded as run.
JobsFail ==
    /\ apc["jobs"] = "request"
    /\ ainflight' = ainflight \ {"jobs"}
    /\ aleft' = [aleft EXCEPT !["jobs"] = 0]
    /\ alast' = alast \cup {ajob}
    /\ ajob' = "none"
    /\ apc' = [apc EXCEPT !["jobs"] = "loop"]
    /\ UNCHANGED exceptAuto

\* time.sleep(300) returns; a new day clears what has run.
JobsWake ==
    /\ apc["jobs"] = "sleep"
    /\ apc' = [apc EXCEPT !["jobs"] = "loop"]
    /\ \E newday \in BOOLEAN : alast' = IF newday THEN {} ELSE alast
    /\ UNCHANGED <<ajob, aleft, ainflight>>
    /\ UNCHANGED exceptAuto

\* smart_live_scheduler._run_monitoring_check: the tournaments that are
\* live or hold stuck matches are listed; update_matches is called for
\* each of them.
LiveCheck ==
    /\ apc["live"] = "loop"
    /\ \E n \in 0..MaxLiveEvents :
        /\ aleft' = [aleft EXCEPT !["live"] = n]
        /\ apc' = [apc EXCEPT !["live"] = IF n = 0 THEN "sleep" ELSE "command"]
    /\ UNCHANGED <<ajob, ainflight, alast>>
    /\ UNCHANGED exceptAuto

\* call_command('update_matches', '--event-id', ...): the request for the
\* matches of the tournament goes out.
LiveCall ==
    /\ apc["live"] = "command"
    /\ apc' = [apc EXCEPT !["live"] = "request"]
    /\ ainflight' = ainflight \cup {"live"}
    /\ UNCHANGED <<ajob, aleft, alast>>
    /\ UNCHANGED exceptAuto

\* The response arrives (or the command raises and the error is logged):
\* the loop goes to the next tournament, or to the sleep.
LiveReturn ==
    /\ apc["live"] = "request"
    /\ ainflight' = ainflight \ {"live"}
    /\ aleft' = [aleft EXCEPT !["live"] = @ - 1]
    /\ apc' = [apc EXCEPT !["live"] =
                  IF aleft["live"] = 1 THEN "sleep" ELSE "command"]
    /\ UNCHANGED <<ajob, alast>>
    /\ UNCHANGED exceptAuto

\* time.sleep(interval) returns.
LiveWake ==
    /\ apc["live"] = "sleep"
    /\ apc' = [apc EXCEPT !["live"] = "loop"]
    /\ UNCHANGED <<ajob, aleft, ainflight, alast>>
    /\ UNCHANGED exceptAuto

NextAuto ==
    \/ JobsCheck
    \/ JobsCall
    \/ JobsReturn
    \/ JobsFail
    \/ JobsWake
    \/ LiveCheck
    \/ LiveCall
    \/ LiveReturn
    \/ LiveWake

SpecAuto == InitAuto /\ [][NextAuto]_vars

----------------------------------------------------------------------------
(* SpecIdem: one batch applied twice in a row, no storage error *)

\* The well-formed batches: complete records of match 1 of the stored event.
IdemBatches ==
    UNION {[1..n -> [kind : {"match"}, key : {1}, d : CompletePayloads]]
           : n \in 1..MaxBatch}

InitIdem ==
    /\ UpsIdle
    /\ ConvIdle
    /\ SavIdle
    /\ EndIdle
    /\ MapIdle
    /\ OneIdle
    /\ AutoIdle
    /\ UniqIdle
    /\ CallIdle
    /\ ScenIdle
    /\ DetectIdle
    /\ CmdIdle
    /\ SchedIdle
    /\ WinnerIdle
    /\ GuardIdle /\ PairIdle /\ BatchIdle /\ ConcIdle
    /\ DedupIdle /\ RankIdle
    /\ idemDb \in [BatchKeys -> CompleteRecords \cup {NoRecord}]
    /\ idemDb[2] = NoRecord
    /\ idemBatch \in IdemBatches
    /\ idemFirst = EmptyDb /\ idemStats = ZeroStats /\ idemRound = 0

\* save_matches(event, idemBatch), for the first and for the second time.
ApplyBatch ==
    /\ idemRound < 2
    /\ LET r == SaveMatches(idemDb, StoredEvent, idemBatch,
                            [kind |-> "none", at |-> 0]) IN
        /\ idemDb' = r.db
        /\ idemStats' = r.stats
        /\ idemFirst' = IF idemRound = 0 THEN r.db ELSE idemFirst
    /\ idemRound' = idemRound + 1
    /\ UNCHANGED idemBatch
    /\ UNCHANGED exceptIdem

NextIdem == ApplyBatch

SpecIdem == InitIdem /\ [][NextIdem]_vars

----------------------------------------------------------------------------
(* SpecDedup: one run of the sweep on a store that may hold duplicates *)

InitDedup ==
    /\ UpsIdle
    /\ ConvIdle
    /\ SavIdle
    /\ EndIdle
    /\ MapIdle
    /\ OneIdle
    /\ AutoIdle
    /\ UniqIdle
    /\ CallIdle
    /\ ScenIdle
    /\ DetectIdle
    /\ CmdIdle
    /\ SchedIdle
    /\ WinnerIdle
    /\ GuardIdle /\ PairIdle /\ BatchIdle /\ ConcIdle /\ IdemIdle
    /\ RankIdle
    /\ mrows \in MatchStores
    /\ total_deleted = 0 /\ total_updated = 0
    /\ dedupDry = FALSE /\ dedupDone = FALSE
    /\ mbefore = mrows /\ mmodified = CreationOrder

\* manage.py cleanup_duplicate_matches [--dry-run]
Cleanup ==
    /\ ~dedupDone
    /\ \E dry \in BOOLEAN :
        /\ LET r == CleanupHandle(mrows, dry) IN
            /\ mrows' = r.rows
            /\ total_deleted' = r.deleted
            /\ total_updated' = r.updated
        /\ dedupDry' = dry
    /\ dedupDone' = TRUE
    /\ UNCHANGED <<mbefore, mmodified>>
    /\ UNCHANGED exceptDedup

NextDedup == Cleanup

SpecDedup == InitDedup /\ [][NextDedup]_vars

----------------------------------------------------------------------------
(* SpecDedupGroup: one run of the sweep on a store that holds one group    *)

InitDedupGroup ==
    /\ UpsIdle
    /\ ConvIdle
    /\ SavIdle
    /\ EndIdle
    /\ MapIdle
    /\ OneIdle
    /\ AutoIdle
    /\ UniqIdle
    /\ CallIdle
    /\ ScenIdle
    /\ DetectIdle
    /\ CmdIdle
    /\ SchedIdle
    /\ WinnerIdle
    /\ GuardIdle /\ PairIdle /\ BatchIdle /\ ConcIdle /\ IdemIdle
    /\ RankIdle
    /\ mrows \in GroupStores
    /\ total_deleted = 0 /\ total_updated = 0
    /\ dedupDry = FALSE /\ dedupDone = FALSE
    /\ mbefore = mrows /\ mmodified = CreationOrder

SpecDedupGroup == InitDedupGroup /\ [][NextDedup]_vars

----------------------------------------------------------------------------
(* SpecDedupTimed: one run of the sweep on a group whose rows were last    *)
(* written in any order                                                    *)

InitDedupTimed ==
    /\ UpsIdle
    /\ ConvIdle
    /\ SavIdle
    /\ EndIdle
    /\ MapIdle
    /\ OneIdle
    /\ AutoIdle
    /\ UniqIdle
    /\ CallIdle
    /\ ScenIdle
    /\ DetectIdle
    /\ CmdIdle
    /\ SchedIdle
    /\ WinnerIdle
    /\ GuardIdle /\ PairIdle /\ BatchIdle /\ ConcIdle /\ IdemIdle
    /\ RankIdle
    /\ mrows \in GroupStores
    /\ total_deleted = 0 /\ total_updated = 0
    /\ dedupDry = FALSE /\ dedupDone = FALSE
    /\ mbefore = mrows /\ mmodified \in ModificationOrders

SpecDedupTimed == InitDedupTimed /\ [][NextDedup]_vars

----------------------------------------------------------------------------
(* SpecRank: calls of save_rankings, one writer *)

\* The stores the calls start from: rows with distinct primary keys and
\* distinct (Player, Season, Type).
RankStores ==
    {st \in SUBSET RankRows :
        /\ TriplesUnique(st)
        /\ \A r1, r2 \in st : r1.ID = r2.ID => r1 = r2}

InitRank ==
    /\ UpsIdle
    /\ ConvIdle
    /\ SavIdle
    /\ EndIdle
    /\ MapIdle
    /\ OneIdle
    /\ AutoIdle
    /\ UniqIdle
    /\ CallIdle
    /\ ScenIdle
    /\ DetectIdle
    /\ CmdIdle
    /\ SchedIdle
    /\ WinnerIdle
    /\ GuardIdle /\ PairIdle /\ BatchIdle /\ ConcIdle /\ IdemIdle
    /\ DedupIdle
    /\ rk \in RankStores
    /\ rbatch = <<>> /\ rstats = ZeroStats

\* save_rankings(rankings_data)
SaveRankingsCall ==
    /\ rbatch = <<>>
    /\ \E b \in RankBatches :
        /\ LET r == SaveRankings(rk, b) IN
            /\ rk' = r.rows
            /\ rstats' = r.stats
        /\ rbatch' = b
    /\ UNCHANGED exceptRank

\* The caller drops the tally (update_rankings) and goes on.
SaveRankingsReturn ==
    /\ rbatch # <<>>
    /\ rbatch' = <<>>
    /\ rstats' = ZeroStats
    /\ UNCHANGED rk
    /\ UNCHANGED exceptRank

NextRank == SaveRankingsCall \/ SaveRankingsReturn

SpecRank == InitRank /\ [][NextRank]_vars

----------------------------------------------------------------------------
(* SpecWinner: the winner reference of one Match *)

InitWinner ==
    /\ UpsIdle
    /\ ConvIdle
    /\ SavIdle
    /\ EndIdle
    /\ MapIdle
    /\ OneIdle
    /\ AutoIdle
    /\ UniqIdle
    /\ CallIdle
    /\ ScenIdle
    /\ DetectIdle
    /\ CmdIdle
    /\ SchedIdle
    /\ GuardIdle /\ PairIdle /\ BatchIdle /\ ConcIdle /\ IdemIdle
    /\ DedupIdle /\ RankIdle
    /\ WinnerIdle

\* save_matches(event, [d]) called outside update_live_matches (for one,
\* by update_matches).
SaveMatchesWinner ==
    \E d \in WinPayloads :
        LET v == ValidateMatchScoreConsistency(d) IN
        /\ wraw' = d
        /\ wcand' = v.defaults
        /\ wreports' = v.reports
        /\ wnamed' = v.named
        /\ wmatch' = SaveMatchItem(wmatch, v.defaults)
        /\ wop' = "save_matches"
        /\ UNCHANGED wevent
        /\ UNCHANGED exceptWinner

\* update_live_matches: _fix_finished_tournaments, then the event is polled
\* and a fetched list goes to save_matches; the fetch fails or is empty.
UpdateLiveMatchesFetchless ==
    /\ wmatch' = FixFinishedTournaments(wmatch, EventEnded(wevent))
    /\ wraw' = NoCandidate /\ wcand' = NoCandidate /\ wreports' = 0
    /\ wnamed' = None
    /\ wop' = "update_live_matches"
    /\ UNCHANGED wevent
    /\ UNCHANGED exceptWinner

\* update_live_matches where the polled event's fetch returns [d].
UpdateLiveMatchesSaving ==
    /\ EventPolled(wevent)
    /\ \E d \in WinPayloads :
        LET v == ValidateMatchScoreConsistency(d)
            m == FixFinishedTournaments(wmatch, EventEnded(wevent))
        IN
        /\ wraw' = d
        /\ wcand' = v.defaults
        /\ wreports' = v.reports
        /\ wnamed' = v.named
        /\ wmatch' = SaveMatchItem(m, v.defaults)
        /\ wop' = "update_live_matches"
        /\ UNCHANGED wevent
        /\ UNCHANGED exceptWinner

\* fix_score_inconsistencies, confirmed by the operator and not a dry run:
\* the matches of the queryset are analysed, the inconsistent ones are
\* listed ("Found n inconsistent matches") and fixed.
FixScoreInconsistencies ==
    /\ wmatch' = IF FixCandidate(wmatch) /\ IsInconsistent(wmatch)
                 THEN ApplyFix(wmatch) ELSE wmatch
    /\ wraw' = NoCandidate /\ wcand' = NoCandidate
    /\ wreports' = IF FixCandidate(wmatch) /\ IsInconsistent(wmatch)
                   THEN 1 ELSE 0
    /\ wnamed' = IF FixCandidate(wmatch) /\ IsInconsistent(wmatch)
                 THEN SuggestedWinner(wmatch) ELSE None
    /\ wop' = "fix_score_inconsistencies"
    /\ UNCHANGED wevent
    /\ UNCHANGED exceptWinner

\* Midnight: the event's EndDate moves into the past.
DayPasses ==
    /\ wevent # "ended_earlier"
    /\ wevent' = IF wevent = "running" THEN "ended_yesterday"
                 ELSE "ended_earlier"
    /\ UNCHANGED <<wmatch, wraw, wcand, wreports, wnamed, wop>>
    /\ UNCHANGED exceptWinner

NextWinner ==
    \/ SaveMatchesWinner
    \/ UpdateLiveMatchesFetchless
    \/ UpdateLiveMatchesSaving
    \/ FixScoreInconsistencies
    \/ DayPasses

SpecWinner == InitWinner /\ [][NextWinner]_vars

----------------------------------------------------------------------------
(* SpecReport: one run of the consistency check, on a candidate of         *)
(* save_matches or on the stored match                                     *)

\* The rows save_matches creates from the candidates of the winner model.
WinRows == {WinUpdateOrCreate(NoRecord, d) : d \in WinPayloads}

InitReport ==
    /\ UpsIdle
    /\ ConvIdle
    /\ SavIdle
    /\ EndIdle
    /\ MapIdle
    /\ OneIdle
    /\ AutoIdle
    /\ UniqIdle
    /\ CallIdle
    /\ ScenIdle
    /\ DetectIdle
    /\ CmdIdle
    /\ SchedIdle
    /\ GuardIdle /\ PairIdle /\ BatchIdle /\ ConcIdle /\ IdemIdle
    /\ DedupIdle /\ RankIdle
    /\ wmatch \in WinRows \cup {NoRecord}
    /\ wevent = "running"
    /\ wraw = NoCandidate /\ wcand = NoCandidate
    /\ wreports = 0 /\ wnamed = None /\ wop = "none"

\* save_matches(event, [d]): the check runs on the candidate.
ReportOnCandidate == wop = "none" /\ SaveMatchesWinner

\* fix_score_inconsistencies: the analysis runs on the stored match.
ReportOnStored == wop = "none" /\ FixScoreInconsistencies

NextReport == ReportOnCandidate \/ ReportOnStored

SpecReport == InitReport /\ [][NextReport]_vars

----------------------------------------------------------------------------
(* SpecSched: the control loop of auto_live_monitor *)

InitSched ==
    /\ UpsIdle
    /\ ConvIdle
    /\ SavIdle
    /\ EndIdle
    /\ MapIdle
    /\ OneIdle
    /\ AutoIdle
    /\ UniqIdle
    /\ CallIdle
    /\ ScenIdle
    /\ DetectIdle
    /\ CmdIdle
    /\ GuardIdle /\ PairIdle /\ BatchIdle /\ ConcIdle /\ IdemIdle
    /\ DedupIdle /\ RankIdle /\ WinnerIdle
    /\ SchedIdle

\* The top of the loop: _has_active_matches gives its verdict and the tick
\* goes to _run_live_updates or to the quiescent maintenance.
StartTick ==
    /\ spc = "loop"
    /\ \E active \in BOOLEAN :
        /\ spc' = IF active THEN "live" ELSE "quiet"
        /\ sactive' = active
    /\ fetched' = "none"
    /\ UNCHANGED <<error_count, error_sleep, interrupted, smatches, swork,
                   sn, splayers>>
    /\ UNCHANGED <<failed_ticks, recovered, next_check, prev_check>>
    /\ UNCHANGED exceptSched

\* update_live_matches fetches the matches of the event. A failure (None)
\* and an empty list are counted in failed_count and the command returns;
\* a list opens the transaction of save_matches.
LiveFetch ==
    /\ spc = "live"
    /\ \E r \in {"failure", "empty", "list"} :
        /\ fetched' = r
        /\ spc' = IF r = "list" THEN "saving" ELSE "done"
    /\ swork' = smatches
    /\ sn' = 0
    /\ UNCHANGED <<error_count, error_sleep, interrupted, smatches,
                   splayers>>
    /\ UNCHANGED <<failed_ticks, recovered, sactive, next_check, prev_check>>
    /\ UNCHANGED exceptSched

\* One record of the batch is written inside transaction.atomic(); the
\* block commits after the last one.
SaveRecord ==
    /\ spc = "saving"
    /\ sn' = sn + 1
    /\ swork' = [swork EXCEPT ![sn + 1] = NextGeneration(smatches)]
    /\ IF sn + 1 = Cardinality(SchedKeys)
       THEN smatches' = swork' /\ spc' = "done"
       ELSE UNCHANGED <<smatches, spc>>
    /\ UNCHANGED <<error_count, error_sleep, fetched, interrupted, splayers>>
    /\ UNCHANGED <<failed_ticks, recovered, sactive, next_check, prev_check>>
    /\ UNCHANGED exceptSched

\* An exception leaves the atomic block: the transaction is rolled back and
\* update_live_matches counts the event as failed (lines 123-133).
SaveFails ==
    /\ spc = "saving"
    /\ swork' = smatches
    /\ spc' = "done"
    /\ UNCHANGED <<error_count, error_sleep, fetched, interrupted, smatches,
                   sn, splayers>>
    /\ UNCHANGED <<failed_ticks, recovered, sactive, next_check, prev_check>>
    /\ UNCHANGED exceptSched

\* The quiescent maintenance: on a qualifying tick update_players fetches
\* the players; a failure or an empty list ends the command with a warning,
\* a list goes to save_players.
QuietTick ==
    /\ spc = "quiet"
    /\ \E r \in {"none", "failure", "empty", "list"} :
        /\ fetched' = r
        /\ spc' = IF r = "list" THEN "saving_players" ELSE "done"
    /\ sn' = 0
    /\ UNCHANGED <<error_count, error_sleep, interrupted, smatches, swork,
                   splayers>>
    /\ UNCHANGED <<failed_ticks, recovered, sactive, next_check, prev_check>>
    /\ UNCHANGED exceptSched

\* save_players writes one record with update_or_create, outside any
\* transaction: the row is committed at once.
SavePlayer ==
    /\ spc = "saving_players"
    /\ sn' = sn + 1
    /\ splayers' =
        [splayers EXCEPT ![sn + 1] =
            IF sn = 0 THEN NextGeneration(splayers) ELSE splayers[1]]
    /\ spc' = IF sn + 1 = Cardinality(SchedKeys) THEN "done" ELSE spc
    /\ UNCHANGED <<error_count, error_sleep, fetched, interrupted, smatches,
                   swork>>
    /\ UNCHANGED <<failed_ticks, recovered, sactive, next_check, prev_check>>
    /\ UNCHANGED exceptSched

\* The tick raises (lines 125-137): the error is counted, and the loop
\* either leaves or sleeps the backoff delay.
TickRaises ==
    /\ spc \in {"live", "quiet"}
    /\ error_count' = error_count + 1
    /\ IF TooManyErrors(error_count')
       THEN spc' = "stopped" /\ error_sleep' = 0
       ELSE spc' = "backoff" /\ error_sleep' = ErrorSleep(error_count')
    /\ failed_ticks' = failed_ticks + 1
    /\ UNCHANGED <<recovered, sactive, next_check, prev_check>>
    /\ UNCHANGED <<fetched, interrupted, smatches, swork, sn, splayers>>
    /\ UNCHANGED exceptSched

\* A loop that never clears its error count.
TickDoneKeepsCount ==
    /\ spc = "done"
    /\ spc' = "sleeping"
    /\ failed_ticks' = 0
    /\ recovered' = (recovered \/ failed_ticks > 0)
    /\ next_check' = NextCheck(sactive)
    /\ prev_check' = next_check
    /\ UNCHANGED sactive
    /\ UNCHANGED <<error_count, error_sleep, fetched, interrupted, smatches,
                   swork, sn, splayers>>
    /\ UNCHANGED exceptSched

\* The tick ran through: next_check is the interval of the branch taken
\* (lines 89, 113) and the loop sleeps it (lines 116-120).
TickDone ==
    /\ spc = "done"
    /\ error_count' = 0
    /\ spc' = "sleeping"
    /\ failed_ticks' = 0
    /\ recovered' = (recovered \/ failed_ticks > 0)
    /\ next_check' = NextCheck(sactive)
    /\ prev_check' = next_check
    /\ UNCHANGED sactive
    /\ UNCHANGED <<error_sleep, fetched, interrupted, smatches, swork, sn,
                   splayers>>
    /\ UNCHANGED exceptSched

\* time.sleep returns.
Wake ==
    /\ spc \in {"sleeping", "backoff"}
    /\ spc' = "loop"
    /\ error_sleep' = 0
    /\ UNCHANGED <<error_count, fetched, interrupted, smatches, swork, sn,
                   splayers>>
    /\ UNCHANGED <<failed_ticks, recovered, sactive, next_check, prev_check>>
    /\ UNCHANGED exceptSched

\* KeyboardInterrupt. Inside the try block it is caught at line 122 and the
\* loop breaks; in the backoff sleep of the except block and at the loop
\* test it leaves handle uncaught. An open transaction is rolled back.
Interrupt ==
    /\ spc \notin Terminal
    /\ ~interrupted
    /\ interrupted' = TRUE
    /\ spc' = IF spc \in {"backoff", "loop"} THEN "crashed" ELSE "stopped"
    /\ swork' = smatches
    /\ UNCHANGED <<error_count, error_sleep, fetched, smatches, sn, splayers>>
    /\ UNCHANGED <<failed_ticks, recovered, sactive, next_check, prev_check>>
    /\ UNCHANGED exceptSched

\* The steps the process takes by itself.
TickProgress ==
    \/ StartTick
    \/ LiveFetch
    \/ SaveRecord
    \/ SaveFails
    \/ QuietTick
    \/ SavePlayer
    \/ TickRaises
    \/ TickDone
    \/ Wake

NextSched == TickProgress \/ Interrupt

SpecSched == InitSched /\ [][NextSched]_vars

\* Every call of a tick returns or raises and every sleep ends.
SpecSchedLive == SpecSched /\ WF_vars(TickProgress)

----------------------------------------------------------------------------
(* SpecCmd: the fetch loops of the update commands *)

InitCmd ==
    /\ UpsIdle
    /\ ConvIdle
    /\ SavIdle
    /\ EndIdle
    /\ MapIdle
    /\ OneIdle
    /\ AutoIdle
    /\ UniqIdle
    /\ CallIdle
    /\ ScenIdle
    /\ DetectIdle
    /\ GuardIdle /\ PairIdle /\ BatchIdle /\ ConcIdle /\ IdemIdle
    /\ DedupIdle /\ RankIdle /\ WinnerIdle /\ SchedIdle
    /\ CmdIdle

\* handle up to the loop. update_players and update_rankings fetch the
\* current season first when --season is not given, and raise CommandError
\* when that fetch fails; time may pass before the loop starts.
StartCommand ==
    /\ ccmd = "none"
    /\ \E c \in Commands, season_given \in BOOLEAN, season_ok \in BOOLEAN,
          busy \in 0..1 :
        LET needsSeason == c \in SeasonCommands /\ ~season_given
            raised == needsSeason /\ ~season_ok
        IN
        /\ ccmd' = IF raised THEN "none" ELSE c
        /\ ccalled' = (needsSeason /\ ~raised)
        /\ cgap' = IF raised THEN 0 ELSE busy
    /\ UNCHANGED <<ci, total_fetched, updated_count, failed_count, coutcome,
                   clast_gap>>
    /\ UNCHANGED exceptCmd

\* One iteration of the loop: the delay if the loop takes it, the request,
\* and the handling of its result; busy is the time that handling takes.
FetchItem ==
    /\ ccmd # "none"
    /\ ci < MaxItems
    /\ \E r \in FetchResults, busy \in 0..1 :
        LET gapAtCall ==
                IF SleepsBeforeFetch(ccmd, ci, total_fetched)
                THEN Elapsed(cgap + RateLimitDelay) ELSE cgap
            counted == Counted(ccmd, r)
        IN
        /\ clast_gap' = IF ccalled THEN gapAtCall ELSE RateLimitDelay
        /\ ccalled' = TRUE
        /\ cgap' = busy
        /\ coutcome' = Append(coutcome,
                [fetch |-> r, counted |-> counted,
                 written |-> WrittenInLoop(ccmd, r)])
        /\ updated_count' =
                IF counted = "updated" THEN updated_count + 1
                ELSE updated_count
        /\ failed_count' =
                IF counted = "failed" THEN failed_count + 1 ELSE failed_count
        /\ total_fetched' =
                IF ccmd = "update_players" /\ r = "list"
                THEN total_fetched + 1 ELSE total_fetched
    /\ ci' = ci + 1
    /\ UNCHANGED ccmd
    /\ UNCHANGED exceptCmd

\* The loop is over: the summary is printed and handle returns.
FinishCommand ==
    /\ ccmd # "none"
    /\ ci = MaxItems
    /\ ccmd' = "none" /\ ci' = 0 /\ total_fetched' = 0
    /\ updated_count' = 0 /\ failed_count' = 0 /\ coutcome' = <<>>
    /\ cgap' = 0 /\ ccalled' = FALSE /\ clast_gap' = RateLimitDelay
    /\ UNCHANGED exceptCmd

NextCmd == StartCommand \/ FetchItem \/ FinishCommand

SpecCmd == InitCmd /\ [][NextCmd]_vars

----------------------------------------------------------------------------
(* SpecDetect: one call of the activity detector *)

\* The stores the detector is called on: one event and at most one match
\* of it, scheduled around the time of the call or not scheduled at all.
InitDetect ==
    /\ UpsIdle
    /\ ConvIdle
    /\ SavIdle
    /\ EndIdle
    /\ MapIdle
    /\ OneIdle
    /\ AutoIdle
    /\ UniqIdle
    /\ CallIdle
    /\ ScenIdle
    /\ GuardIdle /\ PairIdle /\ BatchIdle /\ ConcIdle /\ IdemIdle
    /\ DedupIdle /\ RankIdle /\ WinnerIdle /\ SchedIdle /\ CmdIdle
    /\ current_time \in CheckTimes
    /\ \E ev \in DetectEvents : devents = {ev}
    /\ \/ dmatches = {}
       \/ \E off \in ScheduleOffsets, st \in Statuses :
            dmatches = {[Event |-> 100,
                         ScheduledDate |-> current_time + off,
                         Status |-> st]}
       \/ \E st \in Statuses :
            dmatches = {[Event |-> 100, ScheduledDate |-> None,
                         Status |-> st]}
    /\ has_active_matches = FALSE /\ ddone = FALSE

\* has_active_matches = self._has_active_matches(current_time)
HasActiveMatchesCall ==
    /\ ~ddone
    /\ has_active_matches' =
            HasActiveMatches(current_time, devents, dmatches)
    /\ ddone' = TRUE
    /\ UNCHANGED <<current_time, devents, dmatches>>
    /\ UNCHANGED exceptDetect

NextDetect == HasActiveMatchesCall

SpecDetect == InitDetect /\ [][NextDetect]_vars

----------------------------------------------------------------------------
(* SpecScenario: two consecutive save_matches calls on a fresh key *)

InitScenario ==
    /\ UpsIdle
    /\ ConvIdle
    /\ SavIdle
    /\ EndIdle
    /\ MapIdle
    /\ OneIdle
    /\ AutoIdle
    /\ UniqIdle
    /\ CallIdle
    /\ GuardIdle /\ PairIdle /\ BatchIdle /\ ConcIdle /\ IdemIdle
    /\ DedupIdle /\ RankIdle /\ WinnerIdle /\ SchedIdle /\ CmdIdle
    /\ DetectIdle
    /\ ScenIdle

\* save_matches(event, [d]): the first call finds no row under the key.
ReconcileCall ==
    /\ Len(scenCalls) < 2
    /\ \E d \in ScenarioPayloads :
        /\ scenStored' = Reconcile(scenStored, d)
        /\ scenOutcomes' = Append(scenOutcomes, Outcome(scenStored, d))
        /\ scenCalls' = Append(scenCalls, d)
    /\ UNCHANGED exceptScen

NextScenario == ReconcileCall

SpecScenario == InitScenario /\ [][NextScenario]_vars

----------------------------------------------------------------------------
(* Claims about the history of one key (Spec) *)

\* C1: once a row with two real participants, Status Finished and a non-zero
\* score has been stored, no later sequence of save_matches calls leaves the
\* row with a placeholder participant, Status Scheduled, or missing or
\* all-zero scores.
C1_FinalNeverRegresses ==
    wasFinal =>
        /\ stored # NoRecord
        /\ ~HasPlaceholder(stored)
        /\ stored.Status # StatusUpcoming
        /\ ~HasNoScore(stored)

\* C6: over any sequence of save_matches calls the stored status level
\* (Scheduled < Running/OnBreak < Finished) never decreases.
C6_StatusLevelNonDecreasing ==
    [][(/\ stored # NoRecord
        /\ stored.Status \in Statuses
        /\ stored'.Status \in Statuses)
       => StatusLevel(stored'.Status) >= StatusLevel(stored.Status)]_vars

\* C7: a participant slot that holds a real player never reverts to the
\* placeholder sentinel.
C7_SlotNeverRevertsToPlaceholder ==
    [][stored # NoRecord =>
        /\ (IsReal(stored.Player1ID) => stored'.Player1ID # TBD)
        /\ (IsReal(stored.Player2ID) => stored'.Player2ID # TBD)]_vars

----------------------------------------------------------------------------
(* Claims about interleaved writers (SpecConc) *)

\* C2: with two save_matches executions interleaved on one key, a
\* committed row that is Finished with real participants and a real score
\* is never replaced by a row with a placeholder participant or Status
\* Scheduled.
C2_FinalNotOverwrittenUnderInterleaving ==
    [][IsFinalRecord(cdb) =>
        ~(HasPlaceholder(cdb') \/ cdb'.Status = StatusUpcoming)]_vars

----------------------------------------------------------------------------
(* Claims about the order of two candidates (SpecPair) *)

\* C3: for any stored row and any two candidates A and B of the same key,
\* reconciling A then B leaves the same row as reconciling B then A.
C3_AnyOrderSameRow == pairDone => pairAB = pairBA

----------------------------------------------------------------------------
(* Claims about batches (SpecBatch) *)

\* C4: if a record of the batch hits a storage error while being written,
\* no record of that batch is created or modified and the batch is reported
\* with created = 0 and updated = 0.
C4_WriteErrorRollsBackBatch ==
    [][bfault' = "write" =>
        (db' = db /\ bstats'.created = 0 /\ bstats'.updated = 0)]_vars

\* C5: after save_matches has applied the same well-formed batch twice in
\* a row, the store is the one the first application left and the second
\* application tallied no record as created.
C5_SecondApplicationChangesNothing ==
    idemRound = 2 => (idemDb = idemFirst /\ idemStats.created = 0)

----------------------------------------------------------------------------
(* Claims about the duplicate sweep (SpecDedup) *)

\* C8: after one complete run of the sweep without --dry-run no two stored
\* matches share the same (Event, Round, Number).
C8_NoDuplicateKeyAfterSweep ==
    (dedupDone /\ ~dedupDry) => duplicates(mrows) = {}

----------------------------------------------------------------------------
(* Claims about ranking entries (SpecRank) *)

\* C9: after any sequence of save_rankings calls the store holds at most
\* one Ranking row per (Player, Season, Type).
C9_OneRankingPerTriple == TriplesUnique(rk)

\* C9 witness: a batch of two records for the same stored player and
\* season with different external ids has been applied, both as updates.
C9_Witness ==
    /\ Len(rbatch) = 2
    /\ rbatch[1].kind = "ranking" /\ rbatch[2].kind = "ranking"
    /\ rbatch[1].PlayerID \in StoredPlayers
    /\ rbatch[2].PlayerID = rbatch[1].PlayerID
    /\ rbatch[1].Season \in RankSeasons
    /\ rbatch[2].Season = rbatch[1].Season
    /\ rbatch[1].ID # rbatch[2].ID
    /\ rstats.updated = 2
    /\ Cardinality({r \in rk : /\ r.Player = rbatch[1].PlayerID
                                /\ r.Season = rbatch[1].Season}) = 1

\* The records of a batch whose PlayerID names no stored Player.
MissingParents(b) ==
    {i \in DOMAIN b :
        /\ b[i].kind = "ranking"
        /\ b[i].PlayerID # None
        /\ b[i].PlayerID \notin StoredPlayers}

\* The batch without those records.
ResolvableRecords(b) ==
    SelectSeq(b, LAMBDA it : ~(/\ it.kind = "ranking"
                               /\ it.PlayerID # None
                               /\ it.PlayerID \notin StoredPlayers))

\* C10: every record of a save_rankings batch whose PlayerID matches no
\* stored Player is tallied skipped, no row is created or modified for it
\* (the rows are those the rest of the batch leaves, none with that
\* player), and the other records are processed and tallied as without it.
C10_MissingParentSkipped ==
    [][rbatch' # <<>> =>
        LET rest == SaveRankings(rk, ResolvableRecords(rbatch')) IN
        /\ rk' = rest.rows
        /\ rstats' = [rest.stats EXCEPT
                        !.skipped = @ + Cardinality(MissingParents(rbatch'))]
        /\ \A r \in rk' : r.Player # MissingPlayer]_vars

\* C10 witness: a batch whose first record names the missing player and
\* whose second record names a stored player: one skipped, one updated.
C10_Witness ==
    /\ Len(rbatch) = 2
    /\ rbatch[1].kind = "ranking" /\ rbatch[1].PlayerID = MissingPlayer
    /\ rbatch[2].kind = "ranking" /\ rbatch[2].PlayerID \in StoredPlayers
    /\ rstats.skipped = 1 /\ rstats.updated = 1

----------------------------------------------------------------------------
(* Claims about the winner reference *)

\* The participant with the higher score of a row whose scores differ.
HigherScorer(m) == IF m.Score1 > m.Score2 THEN m.Player1ID ELSE m.Player2ID

\* C11: in every reachable state of the store, a stored Match that is
\* Finished and has both scores has a winner reference equal to the
\* participant with the higher score.
C11_FinishedWinnerHasHigherScore ==
    (/\ wmatch # NoRecord
     /\ wmatch.Status = StatusFinished
     /\ wmatch.Score1 # None /\ wmatch.Score2 # None
     /\ wmatch.Score1 # wmatch.Score2)
        => wmatch.WinnerID = HigherScorer(wmatch)

\* The WinnerID column of the key (None while no row is stored).
StoredWinner(m) == IF m = NoRecord THEN None ELSE m.WinnerID

\* C12: the consistency check only reports. An operation of the normal
\* sync path (save_matches, update_live_matches) leaves the candidate as
\* the mapper returned it, and when it changes the stored WinnerID the new
\* value is the one its upstream candidate supplied.
C12_SyncPathWritesOnlyUpstreamWinner ==
    [][wop' \in {"save_matches", "update_live_matches"} =>
        /\ wcand' = wraw'
        /\ StoredWinner(wmatch') # StoredWinner(wmatch) =>
            /\ wcand' # NoCandidate
            /\ StoredWinner(wmatch') = Get(wcand', "WinnerID")]_vars

----------------------------------------------------------------------------
(* Claims about the scheduler *)

\* C13: fail-stop. The error counter never passes max_errors; when it
\* reaches max_errors the loop has been left, and a loop that has been left
\* starts nothing again; and the loop does not run forever on a persistent
\* failure: again and again either a tick completes without error or the
\* loop has been left.
C13_FailStopAfterMaxErrors ==
    /\ [](error_count <= max_errors)
    /\ [](error_count = max_errors => spc = "stopped")
    /\ [][(spc \in Terminal) => (spc' = spc)]_vars
    /\ []<>(spc = "sleeping" \/ spc \in Terminal)

\* The loop has been left after max_errors consecutive failed ticks.
C13_Witness ==
    spc = "stopped" /\ error_count = max_errors /\ ~interrupted

\* C14: a tick whose upstream fetch failed is counted as a failed tick: when
\* the tick is over the error counter has been incremented and the loop is
\* in its backoff sleep (or has been left after too many errors).
C14_FailedFetchCountsAsTickFailure ==
    (fetched = "failure" /\ ~interrupted
        /\ spc \in {"sleeping", "backoff", "stopped"})
    => /\ error_count >= 1
       /\ spc \in {"backoff", "stopped"}
       /\ spc = "backoff" => error_sleep = ErrorSleep(error_count)

\* C19: graceful shutdown. The step in which KeyboardInterrupt arrives
\* leaves the loop with no half-applied batch in the store, and a loop that
\* has been left starts no further tick.
C19_InterruptStopsCleanly ==
    [][/\ (interrupted' /\ ~interrupted) =>
            /\ spc' \in Terminal
            /\ Uniform(smatches') /\ Uniform(splayers')
       /\ (spc \in Terminal) => (spc' = spc)]_vars

----------------------------------------------------------------------------
(* Claims about the update commands *)

\* C15: empty and failure are distinguished by the match-update commands.
\* An event whose fetch returned an empty result is not counted as failed,
\* an event whose fetch failed is counted as failed, and in both cases the
\* rows of the event are not written.
C15_EmptyIsNotFailure ==
    ccmd \in {"update_live_matches", "update_matches"} =>
        \A i \in 1..Len(coutcome) :
            /\ coutcome[i].fetch = "empty" =>
                (coutcome[i].counted # "failed" /\ ~coutcome[i].written)
            /\ coutcome[i].fetch = "failure" =>
                (coutcome[i].counted = "failed" /\ ~coutcome[i].written)

\* C18: within one command, two consecutive upstream calls are at least
\* the rate-limit delay apart.
C18_CallsSpacedByDelay == clast_gap >= RateLimitDelay

----------------------------------------------------------------------------
(* Claims about the activity detector *)

\* The event's date range brackets now.
Brackets(ev, now) == ev.StartDate <= DateOf(now) /\ DateOf(now) <= ev.EndDate

\* The matches of the events whose date range brackets now.
BracketedMatches ==
    {mt \in dmatches :
        \E ev \in devents : mt.Event = ev.ID /\ Brackets(ev, current_time)}

\* The match starts within 30 minutes or started within the last 4 hours.
InWindow(mt, now) ==
    /\ mt.ScheduledDate # None
    /\ mt.ScheduledDate - now <= 30
    /\ now - mt.ScheduledDate <= 240

\* C16: the activity window. The detector answers active whenever some
\* Scheduled match of a bracketing tournament starts within 30 minutes or
\* started at most 4 hours ago, at every time of day, and answers inactive
\* when the only match is still Scheduled more than 4 hours after its
\* scheduled time.
C16_ActiveInsideWindow ==
    ddone =>
        /\ (\E mt \in BracketedMatches :
                mt.Status = StatusUpcoming /\ InWindow(mt, current_time))
            => has_active_matches
        /\ (\A mt \in dmatches :
                /\ mt.Status = StatusUpcoming
                /\ mt.ScheduledDate # None
                /\ current_time - mt.ScheduledDate > 240)
            => ~has_active_matches

\* C17: a match of a bracketing tournament that is Running or On Break makes
\* the detector answer active, whatever its scheduled time.
C17_RunningMatchIsActive ==
    ddone =>
        ((\E mt \in BracketedMatches :
                mt.Status \in {StatusLive, StatusOnBreak})
            => has_active_matches)

----------------------------------------------------------------------------
(* Claims about scenarios *)

\* The second candidate puts a real player where the first had the
\* placeholder.
UpgradedSlots ==
    {f \in {"Player1ID", "Player2ID"} :
        scenCalls[1][f] = TBD /\ IsReal(scenCalls[2][f])}

----------------------------------------------------------------------------
(* Claims about the duplicate sweep: which rows of a group survive *)

\* The rows of group k with two real participants.
RealRows(st, k) ==
    {i \in Existing(st) :
        st[i].key = k /\ IsReal(st[i].Player1ID) /\ IsReal(st[i].Player2ID)}

\* The rows of group k with a placeholder participant.
PlaceholderRows(st, k) ==
    {i \in Existing(st) : st[i].key = k /\ HasPlaceholder(st[i])}

\* The rows stored under key k.
GroupRows(st, k) == {i \in Existing(st) : st[i].key = k}

\* C21: duplicate collapse prefers real over placeholder. After a sweep
\* without --dry-run, for every group of the pre-sweep store that held a row
\* with two real participants and a row with a placeholder: step 1 deleted
\* exactly the placeholder rows of the group, every placeholder row of the
\* group is gone, every real row is still stored as it was, and where the
\* group was one placeholder row and one real Finished row, the real row is
\* the only row left under the key.
C21_CollapsePrefersReal ==
    (dedupDone /\ ~dedupDry) =>
        \A k \in BatchKeys :
            (RealRows(mbefore, k) # {} /\ PlaceholderRows(mbefore, k) # {})
            => /\ GroupDeletes(mbefore, k) = PlaceholderRows(mbefore, k)
               /\ \A i \in PlaceholderRows(mbefore, k) : mrows[i] = NoRecord
               /\ \A i \in RealRows(mbefore, k) : mrows[i] = mbefore[i]
               /\ (/\ Cardinality(GroupRows(mbefore, k)) = 2
                   /\ \A i \in RealRows(mbefore, k) :
                        mbefore[i].Status = StatusFinished)
                  => /\ GroupRows(mrows, k) = RealRows(mbefore, k)
                     /\ Cardinality(GroupRows(mrows, k)) = 1

\* A sweep has collapsed a group of one placeholder row and one real
\* Finished row to the real row.
C21_Witness ==
    /\ dedupDone /\ ~dedupDry
    /\ \E k \in BatchKeys :
        /\ Cardinality(GroupRows(mbefore, k)) = 2
        /\ Cardinality(PlaceholderRows(mbefore, k)) = 1
        /\ \E i \in RealRows(mbefore, k) :
            /\ mbefore[i].Status = StatusFinished
            /\ GroupRows(mrows, k) = {i}
            /\ mrows[i] = mbefore[i]

\* The row of ids that was written last.
MostRecentlyModified(ids) ==
    CHOOSE i \in ids : \A j \in ids : mmodified[j] <= mmodified[i]

\* C27: after a sweep without --dry-run, of a group that held several rows
\* with real participants the row left is the most recently modified of
\* them, and all the others of the group are deleted.
C27_KeepsMostRecentlyModified ==
    (dedupDone /\ ~dedupDry) =>
        \A k \in BatchKeys :
            Cardinality(RealRows(mbefore, k)) > 1 =>
                GroupRows(mrows, k)
                    = {MostRecentlyModified(RealRows(mbefore, k))}

\* C28: after a sweep without --dry-run every row that was Finished with a
\* placeholder participant has been deleted, and no stored row is Finished
\* with a placeholder participant.
C28_NoFinishedPlaceholderAfterSweep ==
    (dedupDone /\ ~dedupDry) =>
        /\ \A i \in Existing(mbefore) :
            (mbefore[i].Status = StatusFinished /\ HasPlaceholder(mbefore[i]))
                => mrows[i] = NoRecord
        /\ \A i \in Existing(mrows) :
            ~(mrows[i].Status = StatusFinished /\ HasPlaceholder(mrows[i]))

----------------------------------------------------------------------------
(* Claims about the consistency check *)

\* A candidate as a row: a key the defaults lack reads as None.
AsRow(d) == [f \in WinFields |-> Get(d, f)]

\* A Finished match with two unequal scores.
FinishedWithUnequalScores(m) ==
    /\ m.Status = StatusFinished
    /\ m.Score1 # None /\ m.Score2 # None
    /\ m.Score1 # m.Score2

\* What the claim expects the check to report for a Finished match with
\* unequal scores: how many inconsistencies, and the participant cited.
ExpectedReports(m) == IF m.WinnerID = HigherScorer(m) THEN 0 ELSE 1

ExpectedNamed(m) ==
    IF m.WinnerID = HigherScorer(m) THEN None ELSE HigherScorer(m)

----------------------------------------------------------------------------
(* Claims about the rules of the guard (SpecGuard) *)

\* The stored row has two real participants.
ExistingTwoReal ==
    IsReal(existing_match.Player1ID) /\ IsReal(existing_match.Player2ID)

\* The candidate has a placeholder participant.
CandidateHasPlaceholder ==
    \/ Get(new_defaults, "Player1ID") = TBD
    \/ Get(new_defaults, "Player2ID") = TBD

\* The candidate's scores are missing or both zero.
CandidateScoreless ==
    \/ Get(new_defaults, "Score1") = None
    \/ Get(new_defaults, "Score2") = None
    \/ (Get(new_defaults, "Score1") = 0 /\ Get(new_defaults, "Score2") = 0)

\* The stored row has a non-zero score for each participant.
ExistingBothNonZero ==
    /\ existing_match.Score1 # None /\ existing_match.Score2 # None
    /\ existing_match.Score1 > 0 /\ existing_match.Score2 > 0

\* The stored row has a score for each participant, one of them non-zero.
ExistingScored ==
    /\ existing_match.Score1 # None /\ existing_match.Score2 # None
    /\ (existing_match.Score1 > 0 \/ existing_match.Score2 > 0)

\* The conditions of rule 1 and of rule 2 as the design states them.
Rule1Applies == ExistingTwoReal /\ CandidateHasPlaceholder

Rule2Applies ==
    /\ existing_match.Status = StatusFinished
    /\ Get(new_defaults, "Status") = StatusUpcoming

C24_Rule1Skips ==
    (should_skip # "none" /\ Rule1Applies) => should_skip = "skip"

\* Rule 1 alone has skipped a candidate.
C24_Witness ==
    /\ should_skip = "skip"
    /\ Rule1Applies
    /\ ~Rule2Applies /\ ~(ExistingScored /\ CandidateScoreless)

----------------------------------------------------------------------------
(* Claims about concurrent writers and the logical key (SpecUnique) *)

\* C26: starting from a store with no duplicate key, after any interleaving
\* of concurrent save_matches executions no two stored Match rows share
\* the same (Event, Round, Number), committed or not.
C26_KeyUniqueUnderInterleaving ==
    \A k \in BatchKeys :
        ucommitted[k] + upending["auto"][k] + upending["manual"][k] <= 1

\* Both writers saw no row of a key before either created it; both calls
\* are over and the key has one row.
C26_Witness ==
    \E k \in BatchKeys :
        /\ uraced[k]
        /\ ucommitted[k] = 1
        /\ \A w \in Writers : upc[w] = "idle"

----------------------------------------------------------------------------
(* Claims about the error counter and the backoff (SpecSched) *)

\* C29: in every state of the auto_live_monitor loop the error counter
\* equals the number of ticks that failed since the last tick that completed
\* without error (or since the start), it is zero after every tick that
\* completed without error, and it never exceeds max_errors.
C29_CounterCountsConsecutiveFailures ==
    /\ error_count = failed_ticks
    /\ (spc = "sleeping" => error_count = 0)
    /\ error_count <= max_errors

\* A tick that ran through has cleared a counter that was not zero, and two
\* ticks have failed since.
C29_Witness ==
    recovered /\ spc = "backoff" /\ failed_ticks = 2 /\ error_count = 2

\* The smaller of two numbers.
Min(a, b) == IF a <= b THEN a ELSE b

\* The wait the claim states after the n-th consecutive failed tick.
CappedDelay(n) == Min(300, 30 * (2 ^ n))

\* C30: after the n-th consecutive failed tick, n below max_errors, the
\* scheduler waits min(300, 30 * 2^n) seconds before the next tick: the
\* wait is twice the one before it up to the cap, is not shorter than the
\* one before it, and never exceeds 300 seconds.
C30_BackoffDoublesUpToCap ==
    spc = "backoff" =>
        /\ failed_ticks \in 1..(max_errors - 1)
        /\ error_sleep = CappedDelay(failed_ticks)
        /\ error_sleep <= 300
        /\ failed_ticks > 1 =>
            /\ error_sleep = Min(300, 2 * CappedDelay(failed_ticks - 1))
            /\ error_sleep >= CappedDelay(failed_ticks - 1)

\* The loop sleeps the capped wait: the fourth consecutive failure, where
\* 30 * 2^4 is above the cap.
C30_Witness ==
    spc = "backoff" /\ failed_ticks = 4 /\ error_sleep = 300

----------------------------------------------------------------------------
(* Claims about the polling interval (SpecSched) *)

\* C31: the interval the loop sleeps after a tick that ran through is the
\* active interval when has_active_matches was true at that tick and the
\* quiescent interval otherwise, whatever interval the tick before it
\* chose.
C31_IntervalFollowsVerdictOnly ==
    spc = "sleeping" =>
        /\ sactive => next_check = active_interval
        /\ ~sactive => next_check = sleep_interval

\* The tick before chose the quiescent interval; the store became active
\* and the very next tick that ran through sleeps the active interval.
C31_Witness ==
    /\ spc = "sleeping" /\ sactive
    /\ prev_check = sleep_interval /\ next_check = active_interval

----------------------------------------------------------------------------
(* Claims about upstream calls in flight (SpecAuto) *)

\* C32: at any moment at most one upstream API call issued by the process
\* is in flight: the periodic-jobs loop and the live-monitoring loop of
\* comprehensive_automation never have a request out at the same time.
C32_OneUpstreamCallAtATime == Cardinality(ainflight) <= 1

----------------------------------------------------------------------------
(* Claims about records that cannot be keyed (SpecOneCall) *)

\* The batch b without its record at position i.
Without(b, i) ==
    [j \in 1..(Len(b) - 1) |-> IF j < i THEN b[j] ELSE b[j + 1]]

\* The storage error f of a call on b, for the call on Without(b, i); a
\* record that cannot be keyed never reaches the store.
ShiftFault(f, i) ==
    IF f.kind = "none" \/ f.at = i THEN NoFault
    ELSE IF f.at > i THEN [f EXCEPT !.at = @ - 1]
    ELSE f

\* The positions of the records of b that are not a map, lack Round or
\* Number, or have a Round or Number that is no integer.
Unkeyed(b) == {i \in 1..Len(b) : b[i].kind # "match"}

\* The call left the store, and counted created and updated, as the same
\* call without the record at position i does.
SameAsWithout(i) ==
    LET r == SaveMatches(odb, oevent, Without(obatch, i),
                         ShiftFault(ofaultin, i))
    IN /\ onew = r.db
       /\ ostats.created = r.stats.created
       /\ ostats.updated = r.stats.updated

\* The call counted the record at position i as skipped, and nothing else
\* differently from the call without it.
CountedSkipped(i) ==
    LET r == SaveMatches(odb, oevent, Without(obatch, i),
                         ShiftFault(ofaultin, i))
    IN /\ ostats.skipped = r.stats.skipped + 1
       /\ ostats.failed = r.stats.failed

----------------------------------------------------------------------------
(* Claims about the field mapper (SpecMapper) *)

\* The conversion rules of an integer field: an integer, a numeric string,
\* a float (truncated).
IntegerOf(v) ==
    IF v = PyInt("7") \/ v = PyStr("7") \/ v = PyFloat("7.9")
    THEN PyInt("7") ELSE Missing

\* A number, for a decimal field.
IsNumeric(v) == v \in {PyInt("7"), PyStr("7"), PyFloat("7.9")}

\* What the returned payload holds for the field of key k: nothing for a
\* primary key, a relation, a key the record lacks and a value whose
\* conversion failed; None for a null; else the converted value.
PayloadAsClaimed(cls, k, v) ==
    IF FieldKind(cls, k) \in {"primary_key", "relation"} THEN {Missing}
    ELSE IF v = Missing THEN {Missing}
    ELSE IF v = PyNone THEN {PyNone}
    ELSE IF FieldKind(cls, k) = "IntegerField" THEN {IntegerOf(v)}
    ELSE IF IsNumeric(v) THEN {PyInt("7"), PyStr("7"), PyFloat("7.9")}
    ELSE {Missing}

\* C34: prepare_model_data never raises because of one unconvertible
\* field; the payload omits exactly the fields whose conversion failed,
\* holds every other mapped field with its converted value, and never
\* holds a primary-key or relation field of the target entity.
C34_DropsBadFieldsOnly ==
    mdone =>
        /\ ~mraised
        /\ \A k \in DOMAIN mout :
              mout[k] \in PayloadAsClaimed(mcls, k, mdata[k])

----------------------------------------------------------------------------
(* Claims about the tournament-end updates (SpecTourEnd) *)

\* C35: within one run of auto_live_monitor the tournament-end update is
\* executed at most once for any tournament: a tournament that has been
\* processed is in processed_tournament_ends for as long as it is inside
\* the 48-hour window, and the cleanup only forgets it once it has left
\* the window for good.
C35_EndUpdateAtMostOnce ==
    \A t \in Tournaments :
        /\ end_runs[t] <= 1
        /\ (end_runs[t] = 1 /\ t \notin processed_tournament_ends)
              => eEndDate[t] < etoday - RecentDays

\* A tournament has been processed once, the cleanup has taken its ID out
\* of the processed set, and the check has run since.
C35_Witness ==
    \E t \in Tournaments :
        /\ end_runs[t] = 1
        /\ t \notin processed_tournament_ends
        /\ eEndDate[t] < etoday - ProcessedKeptDays
====
